---- MODULE Spec2Model ----
(***************************************************************************)
(* A model of rewrap (github.com/mfridman/rewrap): the reflow engine of   *)
(* package wrap.  A string is a sequence of characters, a character is a  *)
(* one-character TLA+ string, and a list of lines is a sequence of        *)
(* strings.  Every operator below is computed the way the Go code         *)
(* computes it.                                                            *)
(***************************************************************************)
EXTENDS Integers, Sequences, FiniteSets, TLC

SP == " "
TAB == "\t"
NL == "\n"
CR == "\r"

\* unicode.IsSpace on the characters of the model's alphabet.
IsSpace(c) == c \in {SP, TAB, NL, CR}

Range(s) == {s[i] : i \in 1..Len(s)}

Max(a, b) == IF a >= b THEN a ELSE b

\* Go's % truncates towards zero: the result has the sign of the dividend.
GoRem(a, b) ==
  LET ab == IF b < 0 THEN -b ELSE b
  IN  IF a >= 0 THEN a % ab ELSE -((-a) % ab)

(***************************************************************************)
(* Package strings.                                                        *)
(***************************************************************************)
\* The number of leading characters of s that belong to cutset.
LeadCount(s, cutset) ==
  CHOOSE n \in 0..Len(s) :
    /\ \A i \in 1..n : s[i] \in cutset
    /\ n = Len(s) \/ s[n + 1] \notin cutset

\* The number of trailing characters of s that belong to cutset.
TrailCount(s, cutset) ==
  CHOOSE n \in 0..Len(s) :
    /\ \A i \in (Len(s) - n + 1)..Len(s) : s[i] \in cutset
    /\ n = Len(s) \/ s[Len(s) - n] \notin cutset

TrimLeft(s, cutset) == SubSeq(s, LeadCount(s, cutset) + 1, Len(s))

TrimRight(s, cutset) == SubSeq(s, 1, Len(s) - TrailCount(s, cutset))

TrimSpace(s) == TrimRight(TrimLeft(s, {SP, TAB, NL, CR}), {SP, TAB, NL, CR})

HasPrefix(s, p) == Len(p) <= Len(s) /\ SubSeq(s, 1, Len(p)) = p

HasSuffix(s, p) == Len(p) <= Len(s) /\ SubSeq(s, Len(s) - Len(p) + 1, Len(s)) = p

TrimPrefix(s, p) == IF HasPrefix(s, p) THEN SubSeq(s, Len(p) + 1, Len(s)) ELSE s

\* strings.Index, 1-based; 0 when sub does not occur in s.
Index(s, sub) ==
  LET hits == {i \in 1..(Len(s) - Len(sub) + 1) : SubSeq(s, i, i + Len(sub) - 1) = sub}
  IN  IF hits = {} THEN 0 ELSE CHOOSE i \in hits : \A j \in hits : i <= j

Contains(s, sub) == Index(s, sub) > 0

\* The first result of strings.Cut: the text before the first sep, or all of s.
CutBefore(s, sep) == IF Contains(s, sep) THEN SubSeq(s, 1, Index(s, sep) - 1) ELSE s

RECURSIVE ReplaceAll(_, _, _)
ReplaceAll(s, old, new) ==
  IF s = <<>> THEN <<>>
  ELSE IF HasPrefix(s, old)
       THEN new \o ReplaceAll(SubSeq(s, Len(old) + 1, Len(s)), old, new)
       ELSE <<s[1]>> \o ReplaceAll(Tail(s), old, new)

\* strings.Split(s, sep) for a non-empty sep: always at least one element.
RECURSIVE Split(_, _)
Split(s, sep) ==
  LET i == Index(s, sep)
  IN  IF i = 0 THEN <<s>>
      ELSE <<SubSeq(s, 1, i - 1)>> \o Split(SubSeq(s, i + Len(sep), Len(s)), sep)

RECURSIVE Join(_, _)
Join(elems, sep) ==
  IF elems = <<>> THEN <<>>
  ELSE IF Len(elems) = 1 THEN elems[1]
  ELSE elems[1] \o sep \o Join(Tail(elems), sep)

\* strings.Fields: the maximal runs of non-space characters, in order.
RECURSIVE Fields(_)
Fields(s) ==
  LET t == TrimLeft(s, {SP, TAB, NL, CR})
      n == CHOOSE k \in 0..Len(t) :
             /\ \A i \in 1..k : ~IsSpace(t[i])
             /\ k = Len(t) \/ IsSpace(t[k + 1])
  IN  IF t = <<>> THEN <<>>
      ELSE <<SubSeq(t, 1, n)>> \o Fields(SubSeq(t, n + 1, Len(t)))

Repeat(c, n) == [i \in 1..n |-> c]

\* The concatenation of a sequence of sequences.
RECURSIVE Flatten(_)
Flatten(ss) == IF ss = <<>> THEN <<>> ELSE ss[1] \o Flatten(Tail(ss))

(***************************************************************************)
(* wrap.go: the wrap engine.                                               *)
(***************************************************************************)
\* displayWidth panics (integer divide by zero) when it meets a tab at tab width 0.
displayWidthPanics(s, tabWidth) == tabWidth = 0 /\ TAB \in Range(s)

\* The loop of displayWidth: col after scanning s[i..].  Defined for the
\* arguments on which displayWidthPanics is false.
RECURSIVE displayWidthFrom(_, _, _, _)
displayWidthFrom(s, i, col, tabWidth) ==
  IF i > Len(s) THEN col
  ELSE IF s[i] = TAB
       THEN displayWidthFrom(s, i + 1, col + (tabWidth - GoRem(col, tabWidth)), tabWidth)
       ELSE displayWidthFrom(s, i + 1, col + 1, tabWidth)

\* A width that counts every tab as tabWidth columns.
displayWidthFixedTabs(s, tabWidth) ==
  Len(s) + (tabWidth - 1) * Cardinality({i \in 1..Len(s) : s[i] = TAB})

displayWidth(s, tabWidth) == displayWidthFrom(s, 1, 0, tabWidth)

\* splitParagraphs: the paragraphs of text, each the space-joined trimmed lines
\* of a maximal run of non-blank lines.
RECURSIVE splitParagraphsFrom(_, _, _, _)
splitParagraphsFrom(lines, i, current, paragraphs) ==
  IF i > Len(lines)
  THEN IF Len(current) > 0 THEN Append(paragraphs, Join(current, <<SP>>)) ELSE paragraphs
  ELSE LET trimmed == TrimSpace(lines[i])
       IN  IF trimmed = <<>>
           THEN IF Len(current) > 0
                THEN splitParagraphsFrom(lines, i + 1, <<>>,
                                         Append(paragraphs, Join(current, <<SP>>)))
                ELSE splitParagraphsFrom(lines, i + 1, current, paragraphs)
           ELSE splitParagraphsFrom(lines, i + 1, Append(current, trimmed), paragraphs)

\* splitParagraphs with every non-blank line taken as a paragraph of its own.
splitParagraphsByLine(text) ==
  SelectSeq([i \in 1..Len(Split(text, <<NL>>)) |-> TrimSpace(Split(text, <<NL>>)[i])],
            LAMBDA line : line # <<>>)

splitParagraphs(text) == splitParagraphsFrom(Split(text, <<NL>>), 1, <<>>, <<>>)

\* A greedy loop whose fit test leaves out the space before the word.
RECURSIVE wrapWordsNoSpace(_, _, _, _, _, _, _, _, _, _)
wrapWordsNoSpace(words, k, lines, line, lineWidth, currentPrefix, available, subsequentPrefix, columnWidth, tabWidth) ==
  IF k > Len(words)
  THEN IF Len(line) > 0 THEN Append(lines, currentPrefix \o line) ELSE lines
  ELSE IF Len(line) > 0 /\ lineWidth + displayWidth(words[k], tabWidth) > available
       THEN wrapWordsNoSpace(words, k + 1, Append(lines, currentPrefix \o line),
                             words[k], displayWidth(words[k], tabWidth), subsequentPrefix,
                             Max(columnWidth - displayWidth(subsequentPrefix, tabWidth), 1),
                             subsequentPrefix, columnWidth, tabWidth)
       ELSE wrapWordsNoSpace(words, k + 1, lines,
                             IF Len(line) > 0 THEN line \o <<SP>> \o words[k] ELSE words[k],
                             (IF Len(line) > 0 THEN lineWidth + 1 ELSE 0)
                               + displayWidth(words[k], tabWidth),
                             currentPrefix, available, subsequentPrefix, columnWidth, tabWidth)

\* The greedy loop of wrapParagraph over words[k..]: lines are the lines emitted
\* so far, line and lineWidth the line being built.
RECURSIVE wrapWords(_, _, _, _, _, _, _, _, _, _)
wrapWords(words, k, lines, line, lineWidth, currentPrefix, available, subsequentPrefix, columnWidth, tabWidth) ==
  IF k > Len(words)
  THEN IF Len(line) > 0 THEN Append(lines, currentPrefix \o line) ELSE lines
  ELSE LET word == words[k]
           wordWidth == displayWidth(word, tabWidth)
       IN  IF Len(line) > 0
           THEN IF lineWidth + 1 + wordWidth > available
                THEN wrapWords(words, k + 1, Append(lines, currentPrefix \o line),
                               word, wordWidth, subsequentPrefix,
                               Max(columnWidth - displayWidth(subsequentPrefix, tabWidth), 1),
                               subsequentPrefix, columnWidth, tabWidth)
                ELSE wrapWords(words, k + 1, lines, line \o <<SP>> \o word,
                               lineWidth + 1 + wordWidth, currentPrefix, available,
                               subsequentPrefix, columnWidth, tabWidth)
           ELSE wrapWords(words, k + 1, lines, word, wordWidth, currentPrefix,
                          available, subsequentPrefix, columnWidth, tabWidth)

\* wrapParagraph with the width of the first prefix left out of the available width.
wrapParagraphIgnoringPrefix(text, prefix, subsequentPrefix, columnWidth, tabWidth, isFirst) ==
  IF Len(Fields(text)) = 0 THEN <<>>
  ELSE wrapWords(Fields(text), 1, <<>>, <<>>, 0,
                 IF isFirst THEN prefix ELSE subsequentPrefix,
                 Max(columnWidth, 1), subsequentPrefix, columnWidth, tabWidth)

wrapParagraph(text, prefix, subsequentPrefix, columnWidth, tabWidth, isFirst) ==
  LET words == Fields(text)
      currentPrefix == IF isFirst THEN prefix ELSE subsequentPrefix
      available == Max(columnWidth - displayWidth(currentPrefix, tabWidth), 1)
  IN  IF Len(words) = 0 THEN <<>>
      ELSE wrapWords(words, 1, <<>>, <<>>, 0, currentPrefix, available,
                     subsequentPrefix, columnWidth, tabWidth)

\* wrapParagraph panics in displayWidth: on the first prefix, or on the
\* subsequent prefix at the first line break.
wrapParagraphPanics(text, prefix, subsequentPrefix, columnWidth, tabWidth, isFirst) ==
  LET currentPrefix == IF isFirst THEN prefix ELSE subsequentPrefix
  IN  /\ Len(Fields(text)) > 0
      /\ \/ displayWidthPanics(currentPrefix, tabWidth)
         \/ /\ displayWidthPanics(subsequentPrefix, tabWidth)
            /\ Len(wrapParagraph(text, prefix, <<>>, columnWidth, tabWidth, isFirst)) > 1

\* A loop that separates paragraphs by the continuation prefix as it is.
RECURSIVE wrapTextFromUntrimmed(_, _, _, _, _, _, _)
wrapTextFromUntrimmed(paragraphs, i, result, prefix, subsequentPrefix, columnWidth, tabWidth) ==
  IF i > Len(paragraphs) THEN result
  ELSE wrapTextFromUntrimmed(paragraphs, i + 1,
         result \o (IF i > 1 THEN <<subsequentPrefix>> ELSE <<>>)
                \o wrapParagraph(paragraphs[i], prefix, subsequentPrefix,
                                 columnWidth, tabWidth, i = 1),
         prefix, subsequentPrefix, columnWidth, tabWidth)

RECURSIVE wrapTextFrom(_, _, _, _, _, _, _)
wrapTextFrom(paragraphs, i, result, prefix, subsequentPrefix, columnWidth, tabWidth) ==
  IF i > Len(paragraphs) THEN result
  ELSE LET sep == IF i > 1 THEN <<TrimRight(subsequentPrefix, {SP})>> ELSE <<>>
           lines == wrapParagraph(paragraphs[i], prefix, subsequentPrefix,
                                  columnWidth, tabWidth, i = 1)
       IN  wrapTextFrom(paragraphs, i + 1, result \o sep \o lines,
                        prefix, subsequentPrefix, columnWidth, tabWidth)

\* wrapText without its case for the empty text.
wrapTextNoEmptyCase(text, prefix, subsequentPrefix, columnWidth, tabWidth) ==
  wrapTextFrom(splitParagraphs(text), 1, <<>>, prefix, subsequentPrefix,
               columnWidth, tabWidth)

wrapText(text, prefix, subsequentPrefix, columnWidth, tabWidth) ==
  IF text = <<>> THEN <<prefix>>
  ELSE wrapTextFrom(splitParagraphs(text), 1, <<>>, prefix, subsequentPrefix,
                    columnWidth, tabWidth)

wrapTextPanics(text, prefix, subsequentPrefix, columnWidth, tabWidth) ==
  /\ text # <<>>
  /\ LET paragraphs == splitParagraphs(text)
     IN  \E i \in 1..Len(paragraphs) :
           wrapParagraphPanics(paragraphs[i], prefix, subsequentPrefix,
                               columnWidth, tabWidth, i = 1)

(***************************************************************************)
(* language.go: the language table.  Names and tokens are strings of the   *)
(* model (character sequences).                                            *)
(***************************************************************************)
Slashes == <<"/", "/">>
Hash == <<"#">>
BlockOpen == <<"/", "*">>
BlockClose == <<"*", "/">>
StarPrefix == <<" ", "*", " ">>

Language(name, lineMarkers, blockStart, blockEnd, blockPrefix, directives) ==
  [Name |-> name, LineMarkers |-> lineMarkers, BlockStart |-> blockStart,
   BlockEnd |-> blockEnd, BlockPrefix |-> blockPrefix, Directives |-> directives]

\* A nil *Language.
Nil == Language(<<>>, <<>>, <<>>, <<>>, <<>>, <<>>)

languages ==
  << Language(<<"g", "o">>, <<Slashes>>, <<BlockOpen>>, <<BlockClose>>, <<>>,
              << <<"g", "o", ":">>, <<"l", "i", "n", "e", " ">>,
                 <<"e", "x", "p", "o", "r", "t", " ">>,
                 <<"n", "o", "l", "i", "n", "t">> >>),
     Language(<<"c">>, <<Slashes>>, <<BlockOpen>>, <<BlockClose>>, <<>>, <<>>),
     Language(<<"c", "p", "p">>, <<Slashes>>, <<BlockOpen>>, <<BlockClose>>, <<>>, <<>>),
     Language(<<"j", "a", "v", "a">>, <<Slashes>>, <<BlockOpen>>, <<BlockClose>>,
              StarPrefix, <<>>),
     Language(<<"j", "a", "v", "a", "s", "c", "r", "i", "p", "t">>,
              <<Slashes>>, <<BlockOpen>>, <<BlockClose>>, <<>>, <<>>),
     Language(<<"t", "y", "p", "e", "s", "c", "r", "i", "p", "t">>,
              <<Slashes>>, <<BlockOpen>>, <<BlockClose>>, <<>>, <<>>),
     Language(<<"p", "y", "t", "h", "o", "n">>, <<Hash>>, <<>>, <<>>, <<>>, <<>>),
     Language(<<"s", "h", "e", "l", "l">>, <<Hash>>, <<>>, <<>>, <<>>, <<>>),
     Language(<<"r", "u", "b", "y">>, <<Hash>>, <<>>, <<>>, <<>>, <<>>),
     Language(<<"r", "u", "s", "t">>, <<Slashes>>, <<BlockOpen>>, <<BlockClose>>, <<>>, <<>>),
     Language(<<"m", "a", "r", "k", "d", "o", "w", "n">>, <<>>, <<>>, <<>>, <<>>, <<>>) >>

\* languages[i].Extensions, for each entry i of the table.
Extensions ==
  <<
     << <<".", "g", "o">> >>,
     << <<".", "c">>, <<".", "h">> >>,
     << <<".", "c", "p", "p">>, <<".", "c", "c">>, <<".", "c", "x", "x">>, <<".", "h", "p", "p">>, <<".", "h", "x", "x">> >>,
     << <<".", "j", "a", "v", "a">> >>,
     << <<".", "j", "s">>, <<".", "j", "s", "x">>, <<".", "m", "j", "s">>, <<".", "c", "j", "s">> >>,
     << <<".", "t", "s">>, <<".", "t", "s", "x">>, <<".", "m", "t", "s">>, <<".", "c", "t", "s">> >>,
     << <<".", "p", "y">> >>,
     << <<".", "s", "h">>, <<".", "b", "a", "s", "h">>, <<".", "z", "s", "h">> >>,
     << <<".", "r", "b">> >>,
     << <<".", "r", "s">> >>,
     << <<".", "m", "d">>, <<".", "m", "a", "r", "k", "d", "o", "w", "n">> >> >>

\* strings.ToLower.
ToLower(s) ==
  LET UpperCase ==
        <<"A", "B", "C", "D", "E", "F", "G", "H", "I", "J", "K", "L", "M",
          "N", "O", "P", "Q", "R", "S", "T", "U", "V", "W", "X", "Y", "Z">>
      LowerCase ==
        <<"a", "b", "c", "d", "e", "f", "g", "h", "i", "j", "k", "l", "m",
          "n", "o", "p", "q", "r", "s", "t", "u", "v", "w", "x", "y", "z">>
  IN  [i \in 1..Len(s) |->
         IF \E k \in 1..Len(UpperCase) : UpperCase[k] = s[i]
         THEN LowerCase[CHOOSE k \in 1..Len(UpperCase) : UpperCase[k] = s[i]]
         ELSE s[i]]

\* LanguageFromName: the first entry whose name is name in lower case, or nil.
LanguageFromName(name) ==
  LET first(hits) ==
        IF hits = {} THEN Nil ELSE languages[CHOOSE i \in hits : \A j \in hits : i <= j]
      lookup(lower) == first({i \in 1..Len(languages) : languages[i].Name = lower})
  IN  lookup(ToLower(name))

\* extensionMap[ext]: init assigns the entries in table order, so the last
\* entry that lists ext is the one kept.
extensionMap(ext) ==
  LET last(hits) ==
        IF hits = {} THEN Nil ELSE languages[CHOOSE i \in hits : \A j \in hits : j <= i]
  IN  last({i \in 1..Len(languages) : ext \in Range(Extensions[i])})

LanguageFromExtension(ext) == extensionMap(ToLower(ext))

\* filepath.Ext: the suffix of path from the last dot of its last element on;
\* empty when that element has no dot.
Ext(path) ==
  LET dots == {i \in 1..Len(path) :
                 /\ path[i] = "."
                 /\ \A j \in i..Len(path) : path[j] # "/"}
      from(i) == SubSeq(path, i, Len(path))
  IN  IF dots = {} THEN <<>> ELSE from(CHOOSE i \in dots : \A j \in dots : j <= i)

LanguageFromFilename(filename) == LanguageFromExtension(Ext(filename))

\* The message of an error: nil is the empty message.
NoError == <<>>

UnknownLanguage == <<"u", "n", "k", "n", "o", "w", "n", " ", "l", "a", "n", "g", "u", "a", "g", "e", ":", " ">>

\* A resolveLanguage that falls back to the file name for an unknown override.
resolveLanguageFallingBack(filename, langOverride) ==
  IF langOverride = <<"t", "e", "x", "t">> THEN [lang |-> Nil, err |-> NoError]
  ELSE IF langOverride # <<>> /\ LanguageFromName(langOverride) # Nil
  THEN [lang |-> LanguageFromName(langOverride), err |-> NoError]
  ELSE [lang |-> LanguageFromFilename(filename), err |-> NoError]

\* resolveLanguage: the language and the error returned.
resolveLanguage(filename, langOverride) ==
  LET named(l) ==
        IF l = Nil THEN [lang |-> Nil, err |-> UnknownLanguage \o langOverride]
        ELSE [lang |-> l, err |-> NoError]
  IN  IF langOverride = <<"t", "e", "x", "t">> THEN [lang |-> Nil, err |-> NoError]
      ELSE IF langOverride # <<>> THEN named(LanguageFromName(langOverride))
      ELSE IF filename # <<>> THEN [lang |-> LanguageFromFilename(filename), err |-> NoError]
      ELSE [lang |-> Nil, err |-> NoError]

(***************************************************************************)
(* The segment classifier.  Line indices are 1-based: the Go index i is    *)
(* i + 1 here, and an end index is the index after the last line.          *)
(***************************************************************************)
segmentCode == 0
segmentComment == 1
segmentBlock == 2

segment(typ, lines, indent, marker) ==
  [typ |-> typ, lines |-> lines, indent |-> indent, marker |-> marker]

\* The zero value segment{}.
NoSegment == segment(segmentCode, <<>>, <<>>, <<>>)

\* A search that finds a token anywhere in s: the first element of list that
\* s contains.
FirstContainedIn(s, list) ==
  LET hits == {k \in 1..Len(list) : Contains(s, list[k])}
  IN  IF hits = {} THEN 0 ELSE CHOOSE k \in hits : \A j \in hits : k <= j

\* The first element of list that s starts with: its index, or 0 if none.
FirstPrefixOf(s, list) ==
  LET hits == {k \in 1..Len(list) : HasPrefix(s, list[k])}
  IN  IF hits = {} THEN 0 ELSE CHOOSE k \in hits : \A j \in hits : k <= j

\* The result of matchLineComment when the line is no wrappable comment line.
NoMatch == [indent |-> <<>>, marker |-> <<>>, ok |-> FALSE]

\* matchLineComment without its test for directive prefixes.
matchLineCommentNoDirectives(line, lang) ==
  LET withMarker(indent, m, rest) ==
        [indent |-> indent,
         marker |-> IF Len(rest) > 0 /\ rest[1] = SP THEN m \o <<SP>> ELSE m,
         ok |-> TRUE]
      withTrimmed(trimmed, k) ==
        IF trimmed = <<>> \/ k = 0 THEN NoMatch
        ELSE withMarker(SubSeq(line, 1, Len(line) - Len(trimmed)), lang.LineMarkers[k],
                        SubSeq(trimmed, Len(lang.LineMarkers[k]) + 1, Len(trimmed)))
  IN  withTrimmed(TrimLeft(line, {SP, TAB}),
                  FirstPrefixOf(TrimLeft(line, {SP, TAB}), lang.LineMarkers))

matchLineComment(line, lang) ==
  LET withMarker(indent, m, rest) ==
        IF FirstPrefixOf(rest, lang.Directives) > 0 THEN NoMatch
        ELSE [indent |-> indent,
              marker |-> IF Len(rest) > 0 /\ rest[1] = SP THEN m \o <<SP>> ELSE m,
              ok |-> TRUE]
      withTrimmed(trimmed, k) ==
        IF trimmed = <<>> \/ k = 0 THEN NoMatch
        ELSE withMarker(SubSeq(line, 1, Len(line) - Len(trimmed)), lang.LineMarkers[k],
                        SubSeq(trimmed, Len(lang.LineMarkers[k]) + 1, Len(trimmed)))
  IN  withTrimmed(TrimLeft(line, {SP, TAB}),
                  FirstPrefixOf(TrimLeft(line, {SP, TAB}), lang.LineMarkers))

\* A loop that lets a line at another indent into the run.
RECURSIVE lineRunAnyIndent(_, _, _, _, _, _)
lineRunAnyIndent(lines, i, lang, indent, baseMarker, marker) ==
  LET step(m) ==
        IF ~m.ok \/ TrimRight(m.marker, {SP}) # baseMarker
        THEN [end |-> i, marker |-> marker]
        ELSE lineRunAnyIndent(lines, i + 1, lang, indent, baseMarker,
                              IF Len(m.marker) > Len(marker) THEN m.marker ELSE marker)
  IN  IF i > Len(lines) THEN [end |-> i, marker |-> marker]
      ELSE step(matchLineComment(lines[i], lang))

\* The loop of tryLineCommentBlock from line i: the end index and the marker kept.
RECURSIVE lineRun(_, _, _, _, _, _)
lineRun(lines, i, lang, indent, baseMarker, marker) ==
  LET step(m) ==
        IF ~m.ok \/ m.indent # indent \/ TrimRight(m.marker, {SP}) # baseMarker
        THEN [end |-> i, marker |-> marker]
        ELSE lineRun(lines, i + 1, lang, indent, baseMarker,
                     IF Len(m.marker) > Len(marker) THEN m.marker ELSE marker)
  IN  IF i > Len(lines) THEN [end |-> i, marker |-> marker]
      ELSE step(matchLineComment(lines[i], lang))

tryLineCommentBlock(lines, i, lang) ==
  LET block(m, run) ==
        IF run.end = i THEN [seg |-> NoSegment, end |-> i]
        ELSE [seg |-> segment(segmentComment, SubSeq(lines, i, run.end - 1),
                              m.indent, run.marker),
              end |-> run.end]
      first(m) ==
        IF ~m.ok THEN [seg |-> NoSegment, end |-> i]
        ELSE block(m, lineRun(lines, i, lang, m.indent, TrimRight(m.marker, {SP}),
                              m.marker))
  IN  first(matchLineComment(lines[i], lang))

\* The first line at or after i that contains sub, or Len(lines) + 1.
RECURSIVE findContaining(_, _, _)
findContaining(lines, i, sub) ==
  IF i > Len(lines) \/ Contains(lines[i], sub) THEN i
  ELSE findContaining(lines, i + 1, sub)

\* tryBlockComment with the next index left on the closing line of the block.
tryBlockCommentShort(lines, i, lang) ==
  LET found(indent, j) ==
        IF j <= Len(lines)
        THEN [seg |-> segment(segmentBlock, SubSeq(lines, i, j), indent, <<>>),
              end |-> j]
        ELSE [seg |-> segment(segmentCode, SubSeq(lines, i, Len(lines)), <<>>, <<>>),
              end |-> Len(lines) + 1]
      withTrimmed(trimmed) ==
        IF FirstPrefixOf(trimmed, lang.BlockStart) = 0 THEN [seg |-> NoSegment, end |-> i]
        ELSE found(SubSeq(lines[i], 1, Len(lines[i]) - Len(trimmed)),
                   findContaining(lines, i, lang.BlockEnd[1]))
  IN  withTrimmed(TrimLeft(lines[i], {SP, TAB}))

\* tryBlockComment with a block that is never closed taken as a block comment.
tryBlockCommentUnclosed(lines, i, lang) ==
  LET found(indent, j) ==
        IF j <= Len(lines)
        THEN [seg |-> segment(segmentBlock, SubSeq(lines, i, j), indent, <<>>),
              end |-> j + 1]
        ELSE [seg |-> segment(segmentBlock, SubSeq(lines, i, Len(lines)), indent, <<>>),
              end |-> Len(lines) + 1]
      withTrimmed(trimmed) ==
        IF FirstPrefixOf(trimmed, lang.BlockStart) = 0 THEN [seg |-> NoSegment, end |-> i]
        ELSE found(SubSeq(lines[i], 1, Len(lines[i]) - Len(trimmed)),
                   findContaining(lines, i, lang.BlockEnd[1]))
  IN  withTrimmed(TrimLeft(lines[i], {SP, TAB}))

tryBlockComment(lines, i, lang) ==
  LET found(indent, j) ==
        IF j <= Len(lines)
        THEN [seg |-> segment(segmentBlock, SubSeq(lines, i, j), indent, <<>>),
              end |-> j + 1]
        ELSE [seg |-> segment(segmentCode, SubSeq(lines, i, Len(lines)), <<>>, <<>>),
              end |-> Len(lines) + 1]
      withTrimmed(trimmed) ==
        IF FirstPrefixOf(trimmed, lang.BlockStart) = 0 THEN [seg |-> NoSegment, end |-> i]
        ELSE found(SubSeq(lines[i], 1, Len(lines[i]) - Len(trimmed)),
                   findContaining(lines, i, lang.BlockEnd[1]))
  IN  withTrimmed(TrimLeft(lines[i], {SP, TAB}))

\* One turn of the outer loop of parseSegments at line i: the comment segment
\* that starts there and the index after it, or end = i when none starts there.
tryComment(lines, i, lang) ==
  LET pick(b, l) == IF b.end > i THEN b ELSE l
  IN  IF lang = Nil THEN [seg |-> NoSegment, end |-> i]
      ELSE pick(IF Len(lang.BlockStart) > 0 THEN tryBlockComment(lines, i, lang)
                ELSE [seg |-> NoSegment, end |-> i],
                IF Len(lang.LineMarkers) > 0 THEN tryLineCommentBlock(lines, i, lang)
                ELSE [seg |-> NoSegment, end |-> i])

\* An inner loop that stops where it starts.
codeRunEndStuck(lines, i, lang) == i

\* The inner loop of parseSegments: the end of the code run that starts at i.
RECURSIVE codeRunEnd(_, _, _)
codeRunEnd(lines, i, lang) ==
  IF i > Len(lines) THEN i
  ELSE IF /\ lang # Nil
          /\ \/ tryLineCommentBlock(lines, i, lang).end > i
             \/ /\ Len(lang.BlockStart) > 0
                /\ tryBlockComment(lines, i, lang).end > i
       THEN i
       ELSE codeRunEnd(lines, i + 1, lang)

\* One iteration of the outer loop of parseSegments at line i: the segment
\* appended and the index after it.
parseSegmentsStep(lines, i, lang) ==
  LET code(j) == [seg |-> segment(segmentCode, SubSeq(lines, i, j - 1), <<>>, <<>>),
                  end |-> j]
      step(r) == IF r.end > i THEN r ELSE code(codeRunEnd(lines, i, lang))
  IN  step(tryComment(lines, i, lang))

RECURSIVE parseSegmentsFrom(_, _, _, _)
parseSegmentsFrom(lines, i, lang, segments) ==
  LET next(r) == parseSegmentsFrom(lines, r.end, lang, Append(segments, r.seg))
  IN  IF i > Len(lines) THEN segments
      ELSE next(parseSegmentsStep(lines, i, lang))

parseSegments(lines, lang) == parseSegmentsFrom(lines, 1, lang, <<>>)

DecorationChars == {"=", "-", "*", "#", "~", "+", "_", "."}

\* A predicate that takes the content as it is, untrimmed.
isDecorationLineUntrimmed(content) ==
  Len(content) > 0 /\ \A i \in 1..Len(content) : content[i] \in DecorationChars

isDecorationLine(content) ==
  LET trimmed == TrimSpace(content)
  IN  Len(trimmed) > 0 /\ \A i \in 1..Len(trimmed) : trimmed[i] \in DecorationChars

(***************************************************************************)
(* go/doc/comment: comment.Parser.Parse as called by rewrapGoDocComment.   *)
(* The model covers text whose characters are those of the model's         *)
(* alphabet: no upper-case letter (so no old-style heading), no bracket,   *)
(* quote or URL (so paragraph text is one Plain span, which docInlineText  *)
(* returns unchanged).  A Doc is its Content, a sequence of blocks.        *)
(***************************************************************************)
Digits == {"0", "1", "2", "3", "4", "5", "6", "7", "8", "9"}

Bullets == {"*", "+", "-"}

indented(line) == line # <<>> /\ line[1] \in {SP, TAB}

leadingSpace(s) == SubSeq(s, 1, LeadCount(s, {SP, TAB}))

commonPrefix(a, b) ==
  LET n == CHOOSE k \in 0..Len(a) :
             /\ k <= Len(b)
             /\ \A i \in 1..k : a[i] = b[i]
             /\ k = Len(a) \/ k = Len(b) \/ a[k + 1] # b[k + 1]
  IN  SubSeq(a, 1, n)

\* Drops the leading and the trailing elements of lines that are empty.
TrimEmptyLines(lines) ==
  LET keep == {i \in 1..Len(lines) : lines[i] # <<>>}
  IN  IF keep = {} THEN <<>>
      ELSE SubSeq(lines, CHOOSE i \in keep : \A j \in keep : i <= j,
                  CHOOSE i \in keep : \A j \in keep : i >= j)

RECURSIVE commonIndent(_, _, _)
commonIndent(lines, i, prefix) ==
  IF i > Len(lines) THEN prefix
  ELSE commonIndent(lines, i + 1,
                    IF lines[i] # <<>> THEN commonPrefix(prefix, leadingSpace(lines[i]))
                    ELSE prefix)

unindent(lines0) ==
  LET strip(lines, prefix) ==
        TrimEmptyLines([i \in 1..Len(lines) |->
                          IF TrimSpace(TrimPrefix(lines[i], prefix)) = <<>> THEN <<>>
                          ELSE TrimPrefix(lines[i], prefix)])
      trimmed(lines) ==
        IF Len(lines) = 0 THEN <<>>
        ELSE strip(lines, commonIndent(lines, 2, leadingSpace(lines[1])))
  IN  trimmed(TrimEmptyLines(lines0))

\* The result of listMarker on a line that starts no list item.
NoMarker == [num |-> <<>>, rest |-> <<>>, ok |-> FALSE]

\* listMarker: ok, the item number ("" for a bullet) and the text after the marker.
listMarker(line0) ==
  LET checked(m) ==
        IF ~m.ok \/ ~indented(m.rest) \/ TrimSpace(m.rest) = <<>> THEN NoMarker ELSE m
      marker(line, n) ==
        IF line[1] \in Bullets
        THEN [num |-> <<>>, rest |-> Tail(line), ok |-> TRUE]
        ELSE IF line[1] \in Digits /\ n < Len(line) /\ line[n + 1] \in {".", ")"}
             THEN [num |-> SubSeq(line, 1, n), rest |-> SubSeq(line, n + 2, Len(line)),
                   ok |-> TRUE]
             ELSE NoMarker
      trimmed(line) ==
        IF line = <<>> THEN NoMarker ELSE checked(marker(line, LeadCount(line, Digits)))
  IN  trimmed(TrimSpace(line0))

isList(line) == listMarker(line).ok

isHeading(line) ==
  /\ Len(line) >= 2
  /\ line[1] = "#"
  /\ line[2] \in {SP, TAB}
  /\ TrimSpace(line) # <<"#">>

spanPara == "Paragraph"
spanCode == "Code"
spanHeading == "Heading"
spanList == "List"

\* The first index at or after i whose line is not blank, or Len(lines) + 1.
RECURSIVE skipBlank(_, _)
skipBlank(lines, i) ==
  IF i > Len(lines) \/ lines[i] # <<>> THEN i ELSE skipBlank(lines, i + 1)

\* The scan of an indented span from line i; forceIndent is the first line
\* that is not forced to count as indented.
RECURSIVE indentedEnd(_, _, _, _)
indentedEnd(lines, i, forceIndent, unindentedListOK) ==
  IF /\ i <= Len(lines)
     /\ \/ lines[i] = <<>>
        \/ i < forceIndent
        \/ indented(lines[i])
        \/ unindentedListOK /\ isList(lines[i])
  THEN indentedEnd(lines, i + 1, forceIndent, unindentedListOK /\ lines[i] # <<>>)
  ELSE i

RECURSIVE unindentedEnd(_, _)
unindentedEnd(lines, i) ==
  IF i <= Len(lines) /\ lines[i] # <<>> /\ ~indented(lines[i])
  THEN unindentedEnd(lines, i + 1)
  ELSE i

\* end moved back over trailing lines that satisfy drop (blank lines, list items).
RECURSIVE backOver(_, _, _, _)
backOver(lines, start, end, blank) ==
  IF end > start /\ (IF blank THEN lines[end - 1] = <<>> ELSE isList(lines[end - 1]))
  THEN backOver(lines, start, end - 1, blank)
  ELSE end

\* parseSpans: spans are [start, end, kind] over lines[start..end-1].
RECURSIVE parseSpansFrom(_, _, _, _)
parseSpansFrom(lines, i0, forceIndent, spans) ==
  LET span(start, end, kind) == [start |-> start, end |-> end, kind |-> kind]
      \* an indented span: code, or a list when its first line is a list item
      indentedSpan(start, e1) ==
        parseSpansFrom(lines,
                       IF e1 <= Len(lines) /\ HasPrefix(lines[e1], <<"}">>)
                       THEN e1 + 1 ELSE e1,
                       forceIndent,
                       Append(spans,
                              span(start,
                                   IF e1 <= Len(lines) /\ HasPrefix(lines[e1], <<"}">>)
                                   THEN e1 + 1 ELSE e1,
                                   IF isList(lines[start]) THEN spanList ELSE spanCode)))
      \* an unindented span that ends at end, with the next forceIndent
      para(start, end, force, misplaced) ==
        IF misplaced /\ start = end /\ force > start
        THEN parseSpansFrom(lines, start, force, spans)
        ELSE parseSpansFrom(lines, end, force,
                            Append(spans,
                                   span(start, end,
                                        IF end - start = 1 /\ isHeading(lines[start])
                                        THEN spanHeading ELSE spanPara)))
      decided(start, i, misplaced, asList, asCode) ==
        para(start,
             IF asList THEN backOver(lines, start, i - 1, FALSE)
             ELSE IF asCode THEN i - 1 ELSE i,
             IF asList \/ asCode THEN i ELSE forceIndent,
             misplaced)
      misplacedAt(start, i, misplaced) ==
        decided(start, i, misplaced,
                misplaced /\ isList(lines[i - 1]),
                /\ misplaced /\ ~isList(lines[i - 1])
                /\ \/ HasSuffix(lines[i - 1], <<"{">>)
                   \/ HasSuffix(lines[i - 1], <<"\\">>))
      unindentedSpan(start, i) ==
        misplacedAt(start, i, i <= Len(lines) /\ lines[i] # <<>> /\ ~isList(lines[i]))
      from(start) ==
        IF start > Len(lines) THEN spans
        ELSE IF start < forceIndent \/ indented(lines[start])
        THEN indentedSpan(start,
                          backOver(lines, start,
                                   indentedEnd(lines, start + 1, forceIndent,
                                               isList(lines[start]) /\ start < forceIndent),
                                   TRUE))
        ELSE unindentedSpan(start, unindentedEnd(lines, start + 1))
  IN  from(skipBlank(lines, i0))

parseSpans(lines) == parseSpansFrom(lines, 1, 1, <<>>)

Paragraph(text) == [kind |-> spanPara, Text |-> text]

\* parseDoc.list: the fold over the lines of a list span.  items is the list
\* built so far, text the pending lines of its last item.
listFlush(items, text) ==
  IF items # <<>> /\ text # <<>>
  THEN [items EXCEPT ![Len(items)].Content = Append(@, Paragraph(Join(text, <<NL>>)))]
  ELSE items

RECURSIVE listFrom(_, _, _, _, _, _)
listFrom(lines, i, numbered, items, text, forceBlankBetween) ==
  LET add(items1, text1, line) ==
        IF line = <<>>
        THEN listFrom(lines, i + 1, numbered, listFlush(items1, text1), <<>>, TRUE)
        ELSE listFrom(lines, i + 1, numbered, items1, Append(text1, line),
                      forceBlankBetween)
      step(lm, starts) ==
        add(IF starts
            THEN Append(listFlush(items, text), [Number |-> lm.num, Content |-> <<>>])
            ELSE items,
            IF starts THEN <<>> ELSE text,
            TrimSpace(IF starts THEN lm.rest ELSE lines[i]))
      marked(lm) == step(lm, lm.ok /\ ((lm.num # <<>>) = numbered))
  IN  IF i > Len(lines)
      THEN [Items |-> listFlush(items, text), ForceBlankBetween |-> forceBlankBetween]
      ELSE marked(listMarker(lines[i]))

docList(lines, forceBlankBefore) ==
  LET list(l) ==
        [kind |-> spanList, Items |-> l.Items, ForceBlankBefore |-> forceBlankBefore,
         ForceBlankBetween |-> l.ForceBlankBetween]
  IN  list(listFrom(lines, 1, listMarker(lines[1]).num # <<>>, <<>>, <<>>, FALSE))

docCode(lines) == [kind |-> spanCode, Text |-> Join(Append(unindent(lines), <<>>), <<NL>>)]

docHeading(line) == [kind |-> spanHeading, Text |-> TrimSpace(Tail(line))]

RECURSIVE docBlocks(_, _, _, _, _)
docBlocks(lines, spans, k, prevEnd, content) ==
  IF k > Len(spans) THEN content
  ELSE LET s == spans[k]
           ls == SubSeq(lines, s.start, s.end - 1)
           b == IF s.kind = spanList THEN docList(ls, prevEnd < s.start)
                ELSE IF s.kind = spanCode THEN docCode(ls)
                ELSE IF s.kind = spanHeading THEN docHeading(lines[s.start])
                ELSE Paragraph(Join(ls, <<NL>>))
       IN  docBlocks(lines, spans, k + 1, s.end, Append(content, b))

\* comment.Parser.Parse(text).Content
Parse(text) ==
  LET doc(lines) == docBlocks(lines, parseSpans(lines), 1, 1, <<>>)
  IN  doc(unindent(Split(text, <<NL>>)))

(***************************************************************************)
(* process.go: the renderers and Source.                                   *)
(***************************************************************************)
\* docInlineText of the one Plain span a paragraph or heading of the model holds.
docInlineText(text) == text

\* A list renderer whose continuation prefix leaves out the width of the bullet.
RECURSIVE renderDocItemsUnaligned(_, _, _, _, _, _)
renderDocItemsUnaligned(list, i, prefix, bareMarker, column, tabWidth) ==
  IF i > Len(list.Items) THEN <<>>
  ELSE (IF i > 1 /\ list.ForceBlankBetween THEN <<bareMarker>> ELSE <<>>)
       \o Flatten([j \in 1..Len(list.Items[i].Content) |->
                     (IF j > 1 THEN <<bareMarker>> ELSE <<>>)
                     \o wrapText(docInlineText(list.Items[i].Content[j].Text),
                                 IF j = 1
                                 THEN prefix \o <<SP, SP>>
                                      \o (IF list.Items[i].Number # <<>>
                                          THEN list.Items[i].Number \o <<".", SP>>
                                          ELSE <<"-", SP>>)
                                 ELSE prefix \o <<SP, SP>>,
                                 prefix \o <<SP, SP>>, column, tabWidth)])
       \o renderDocItemsUnaligned(list, i + 1, prefix, bareMarker, column, tabWidth)

\* The lines renderDocList emits for item i and the items after it.
RECURSIVE renderDocItems(_, _, _, _, _, _)
renderDocItems(list, i, prefix, bareMarker, column, tabWidth) ==
  IF i > Len(list.Items) THEN <<>>
  ELSE LET item == list.Items[i]
           bullet == IF item.Number # <<>> THEN item.Number \o <<".", SP>> ELSE <<"-", SP>>
           firstPrefix == prefix \o <<SP, SP>> \o bullet
           contPrefix == prefix \o <<SP, SP>> \o Repeat(SP, Len(bullet))
           blocks == [j \in 1..Len(item.Content) |->
                        (IF j > 1 THEN <<bareMarker>> ELSE <<>>)
                        \o wrapText(docInlineText(item.Content[j].Text),
                                    IF j = 1 THEN firstPrefix ELSE contPrefix,
                                    contPrefix, column, tabWidth)]
       IN  (IF i > 1 /\ list.ForceBlankBetween THEN <<bareMarker>> ELSE <<>>)
           \o Flatten(blocks)
           \o renderDocItems(list, i + 1, prefix, bareMarker, column, tabWidth)

renderDocList(list, prefix, bareMarker, column, tabWidth) ==
  renderDocItems(list, 1, prefix, bareMarker, column, tabWidth)

\* A renderer that puts a separator before every block but the first.
renderDocBlockAlwaysBlank(content, i, prefix, bareMarker, column, tabWidth) ==
  (IF i > 1 THEN <<bareMarker>> ELSE <<>>)
  \o (IF content[i].kind = spanPara
      THEN wrapText(docInlineText(content[i].Text), prefix, prefix, column, tabWidth)
      ELSE IF content[i].kind = spanCode
      THEN [k \in 1..Len(Split(TrimRight(content[i].Text, {NL}), <<NL>>)) |->
              IF Split(TrimRight(content[i].Text, {NL}), <<NL>>)[k] = <<>> THEN bareMarker
              ELSE bareMarker \o <<TAB>> \o Split(TrimRight(content[i].Text, {NL}), <<NL>>)[k]]
      ELSE IF content[i].kind = spanHeading
      THEN <<prefix \o <<"#", SP>> \o docInlineText(content[i].Text)>>
      ELSE renderDocList(content[i], prefix, bareMarker, column, tabWidth))

\* A renderer that wraps the lines of a code block like a paragraph.
renderDocBlockWrappingCode(content, i, prefix, bareMarker, column, tabWidth) ==
  (IF i = 1 THEN <<>>
   ELSE IF content[i].kind = spanList /\ content[i - 1].kind = spanPara
        THEN (IF content[i].ForceBlankBefore THEN <<bareMarker>> ELSE <<>>)
        ELSE <<bareMarker>>)
  \o (IF content[i].kind = spanPara
      THEN wrapText(docInlineText(content[i].Text), prefix, prefix, column, tabWidth)
      ELSE IF content[i].kind = spanCode
      THEN wrapText(content[i].Text, bareMarker \o <<TAB>>, bareMarker \o <<TAB>>,
                    column, tabWidth)
      ELSE IF content[i].kind = spanHeading
      THEN <<prefix \o <<"#", SP>> \o docInlineText(content[i].Text)>>
      ELSE renderDocList(content[i], prefix, bareMarker, column, tabWidth))

\* The lines rewrapGoDocComment emits for block i of content: the separator
\* decided by the block before it, then the block.
renderDocBlock(content, i, prefix, bareMarker, column, tabWidth) ==
  LET block == content[i]
      addBlank == IF i = 1 THEN FALSE
                  ELSE IF block.kind = spanList /\ content[i - 1].kind = spanPara
                       THEN block.ForceBlankBefore
                       ELSE TRUE
      codeLines == Split(TrimRight(block.Text, {NL}), <<NL>>)
      body == IF block.kind = spanPara
              THEN wrapText(docInlineText(block.Text), prefix, prefix, column, tabWidth)
              ELSE IF block.kind = spanCode
              THEN [k \in 1..Len(codeLines) |->
                      IF codeLines[k] = <<>> THEN bareMarker
                      ELSE bareMarker \o <<TAB>> \o codeLines[k]]
              ELSE IF block.kind = spanHeading
              THEN <<prefix \o <<"#", SP>> \o docInlineText(block.Text)>>
              ELSE renderDocList(block, prefix, bareMarker, column, tabWidth)
  IN  (IF addBlank THEN <<bareMarker>> ELSE <<>>) \o body

\* The number of leading elements of textLines that are blank.
leadingBlankCount(textLines) ==
  CHOOSE n \in 0..Len(textLines) :
    /\ \A i \in 1..n : TrimSpace(textLines[i]) = <<>>
    /\ n = Len(textLines) \/ TrimSpace(textLines[n + 1]) # <<>>

\* A count of trailing blanks that does not stop at the leading blanks.
trailingBlankCountFromStart(textLines, from) ==
  CHOOSE n \in 0..Len(textLines) :
    /\ \A i \in (Len(textLines) - n + 1)..Len(textLines) : TrimSpace(textLines[i]) = <<>>
    /\ n = Len(textLines) \/ TrimSpace(textLines[Len(textLines) - n]) # <<>>

\* The number of trailing blank elements of textLines, at positions after from.
trailingBlankCount(textLines, from) ==
  CHOOSE n \in 0..(Len(textLines) - from) :
    /\ \A i \in (Len(textLines) - n + 1)..Len(textLines) : TrimSpace(textLines[i]) = <<>>
    /\ n = Len(textLines) - from \/ TrimSpace(textLines[Len(textLines) - n]) # <<>>

\* The lines rewrapGoDocComment emits once the comment is parsed: the preserved
\* leading blanks, the blocks of content, the preserved trailing blanks.
renderDocContent(content, leadingBlanks, trailingBlanks, prefix, bareMarker, column, tabWidth) ==
  IF Len(content) = 0 THEN Repeat(bareMarker, leadingBlanks + trailingBlanks)
  ELSE Repeat(bareMarker, leadingBlanks)
       \o Flatten([i \in 1..Len(content) |->
                     renderDocBlock(content, i, prefix, bareMarker, column, tabWidth)])
       \o Repeat(bareMarker, trailingBlanks)

rewrapGoDocComment(textLines, indent, column, tabWidth) ==
  renderDocContent(Parse(Join(textLines, <<NL>>)), leadingBlankCount(textLines),
                   trailingBlankCount(textLines, leadingBlankCount(textLines)),
                   indent \o Slashes \o <<SP>>, indent \o Slashes, column, tabWidth)

\* rewrapGoDocComment panics: one of its wrapText calls does.
rewrapGoDocCommentPanics(textLines, indent, column, tabWidth) ==
  LET panics(content, prefix) ==
        \E i \in 1..Len(content) :
          \/ /\ content[i].kind = spanPara
             /\ wrapTextPanics(content[i].Text, prefix, prefix, column, tabWidth)
          \/ /\ content[i].kind = spanList
             /\ \E k \in 1..Len(content[i].Items) :
                  \E j \in 1..Len(content[i].Items[k].Content) :
                    wrapTextPanics(content[i].Items[k].Content[j].Text,
                                   prefix \o <<SP, SP>>, prefix \o <<SP, SP>>,
                                   column, tabWidth)
  IN  panics(Parse(Join(textLines, <<NL>>)), indent \o Slashes \o <<SP>>)

\* The commentLine of a segment line: the line and its text after indent and marker.
commentLine(line, seg) ==
  LET stripped == TrimLeft(line, {SP, TAB})
  IN  [raw |-> line,
       content |-> IF Len(seg.marker) <= Len(stripped)
                   THEN SubSeq(stripped, Len(seg.marker) + 1, Len(stripped))
                   ELSE <<>>]

usesGoDoc(seg, lang) == lang.Name = <<"g", "o">> /\ TrimSpace(seg.marker) = Slashes

\* The text line the Go branch of flush takes from a raw comment line.
goTextLine(raw) ==
  LET stripped == TrimLeft(raw, {SP, TAB})
  IN  IF HasPrefix(stripped, Slashes \o <<SP>>) THEN SubSeq(stripped, 4, Len(stripped))
      ELSE IF HasPrefix(stripped, Slashes \o <<TAB>>) THEN SubSeq(stripped, 3, Len(stripped))
      ELSE <<>>

\* The closure flush of rewrapLineComments on the run lines[runStart..end-1];
\* runStart = 0 stands for Go's -1 (no open run).
flush(lines, runStart, end, seg, lang, column, tabWidth) ==
  LET wrap(run) ==
        IF usesGoDoc(seg, lang)
        THEN rewrapGoDocComment([k \in 1..Len(run) |-> goTextLine(run[k].raw)],
                                seg.indent, column, tabWidth)
        ELSE wrapText(Join([k \in 1..Len(run) |-> run[k].content], <<NL>>),
                      seg.indent \o seg.marker, seg.indent \o seg.marker,
                      column, tabWidth)
  IN  IF runStart < 1 \/ runStart >= end THEN <<>>
      ELSE wrap(SubSeq(lines, runStart, end - 1))

flushPanics(lines, runStart, end, seg, lang, column, tabWidth) ==
  LET panics(run) ==
        IF usesGoDoc(seg, lang)
        THEN rewrapGoDocCommentPanics([k \in 1..Len(run) |-> goTextLine(run[k].raw)],
                                      seg.indent, column, tabWidth)
        ELSE wrapTextPanics(Join([k \in 1..Len(run) |-> run[k].content], <<NL>>),
                            seg.indent \o seg.marker, seg.indent \o seg.marker,
                            column, tabWidth)
  IN  /\ ~(runStart < 1 \/ runStart >= end)
      /\ panics(SubSeq(lines, runStart, end - 1))

\* The loop of rewrapLineComments over lines[i..] with the open run runStart:
\* a decoration line, and the end of the lines, flush the open run.
RECURSIVE rewrapLineCommentsFrom(_, _, _, _, _, _, _)
rewrapLineCommentsFrom(lines, i, runStart, seg, lang, column, tabWidth) ==
  IF i <= Len(lines) /\ ~isDecorationLine(lines[i].content)
  THEN rewrapLineCommentsFrom(lines, i + 1, IF runStart < 1 THEN i ELSE runStart,
                              seg, lang, column, tabWidth)
  ELSE flush(lines, runStart, i, seg, lang, column, tabWidth)
       \o IF i > Len(lines) THEN <<>>
          ELSE <<seg.indent \o seg.marker \o lines[i].content>>
               \o rewrapLineCommentsFrom(lines, i + 1, 0, seg, lang, column, tabWidth)

rewrapLineComments(seg, lang, column, tabWidth) ==
  rewrapLineCommentsFrom([k \in 1..Len(seg.lines) |-> commentLine(seg.lines[k], seg)],
                         1, 0, seg, lang, column, tabWidth)

RECURSIVE rewrapLineCommentsPanicsFrom(_, _, _, _, _, _, _)
rewrapLineCommentsPanicsFrom(lines, i, runStart, seg, lang, column, tabWidth) ==
  IF i <= Len(lines) /\ ~isDecorationLine(lines[i].content)
  THEN rewrapLineCommentsPanicsFrom(lines, i + 1, IF runStart < 1 THEN i ELSE runStart,
                                    seg, lang, column, tabWidth)
  ELSE \/ flushPanics(lines, runStart, i, seg, lang, column, tabWidth)
       \/ /\ i <= Len(lines)
          /\ rewrapLineCommentsPanicsFrom(lines, i + 1, 0, seg, lang, column, tabWidth)

rewrapLineCommentsPanics(seg, lang, column, tabWidth) ==
  rewrapLineCommentsPanicsFrom([k \in 1..Len(seg.lines) |-> commentLine(seg.lines[k], seg)],
                               1, 0, seg, lang, column, tabWidth)

\* The text lines rewrapBlockComment extracts from the lines of a block segment.
blockTextLine(line, i, startMarker, endMarker) ==
  LET stripped == TrimLeft(line, {SP, TAB})
      after == TrimSpace(TrimPrefix(stripped, startMarker))
      before == TrimSpace(TrimPrefix(TrimSpace(CutBefore(stripped, endMarker)), <<"*">>))
      content == IF TrimPrefix(stripped, <<"*", SP>>) # stripped
                 THEN TrimPrefix(stripped, <<"*", SP>>)
                 ELSE TrimPrefix(stripped, <<"*">>)
  IN  IF i = 1 THEN (IF after # <<>> THEN <<after>> ELSE <<>>)
      ELSE IF Contains(line, endMarker) THEN (IF before # <<>> THEN <<before>> ELSE <<>>)
      ELSE <<content>>

blockTextLines(seg, lang) ==
  Flatten([i \in 1..Len(seg.lines) |->
             blockTextLine(seg.lines[i], i, lang.BlockStart[1], lang.BlockEnd[1])])

blockInnerPrefix(seg, lang) ==
  seg.indent \o (IF lang.BlockPrefix = <<>> THEN StarPrefix ELSE lang.BlockPrefix)

rewrapBlockComment(seg, lang, column, tabWidth) ==
  IF Len(seg.lines) <= 1 THEN seg.lines
  ELSE <<seg.indent \o lang.BlockStart[1]>>
       \o wrapText(Join(blockTextLines(seg, lang), <<NL>>), blockInnerPrefix(seg, lang),
                   blockInnerPrefix(seg, lang), column, tabWidth)
       \o <<seg.indent \o <<SP>> \o lang.BlockEnd[1]>>

rewrapBlockCommentPanics(seg, lang, column, tabWidth) ==
  /\ Len(seg.lines) > 1
  /\ wrapTextPanics(Join(blockTextLines(seg, lang), <<NL>>), blockInnerPrefix(seg, lang),
                    blockInnerPrefix(seg, lang), column, tabWidth)

wrapPlainText(lines, column, tabWidth) ==
  LET restore(result) ==
        IF Len(lines) > 0 /\ lines[Len(lines)] = <<>> /\ ~HasSuffix(result, <<NL>>)
        THEN result \o <<NL>>
        ELSE result
  IN  restore(Join(wrapText(Join(lines, <<NL>>), <<>>, <<>>, column, tabWidth), <<NL>>))

\* renderSegment with the trailing white space of code lines trimmed.
renderSegmentTrimmingCode(seg, lang, column, tabWidth) ==
  IF seg.typ = segmentCode
  THEN [i \in 1..Len(seg.lines) |-> TrimRight(seg.lines[i], {SP, TAB})]
  ELSE IF seg.typ = segmentComment THEN rewrapLineComments(seg, lang, column, tabWidth)
  ELSE rewrapBlockComment(seg, lang, column, tabWidth)

\* The lines Source emits for one segment.
renderSegment(seg, lang, column, tabWidth) ==
  IF seg.typ = segmentCode THEN seg.lines
  ELSE IF seg.typ = segmentComment THEN rewrapLineComments(seg, lang, column, tabWidth)
  ELSE rewrapBlockComment(seg, lang, column, tabWidth)

renderSegmentPanics(seg, lang, column, tabWidth) ==
  \/ seg.typ = segmentComment /\ rewrapLineCommentsPanics(seg, lang, column, tabWidth)
  \/ seg.typ = segmentBlock /\ rewrapBlockCommentPanics(seg, lang, column, tabWidth)

\* The line-ending normalisation and split at the head of Source.
sourceLines(src) ==
  Split(ReplaceAll(ReplaceAll(src, <<CR, NL>>, <<NL>>), <<CR>>, <<NL>>), <<NL>>)

\* Source in segmented mode: the lines emitted for each segment, in order.
sourceOut(segments, lang, column, tabWidth) ==
  [k \in 1..Len(segments) |-> renderSegment(segments[k], lang, column, tabWidth)]

\* The tail of Source in segmented mode: the emitted lines joined, and the
\* trailing newline of src restored.
sourceResult(src, out) ==
  LET restore(result) ==
        IF Len(src) > 0 /\ src[Len(src)] = NL /\ ~HasSuffix(result, <<NL>>)
        THEN result \o <<NL>>
        ELSE result
  IN  restore(Join(Flatten(out), <<NL>>))

\* Source for a nil language or a language other than markdown.
Source(src, lang, column, tabWidth) ==
  IF lang = Nil THEN wrapPlainText(sourceLines(src), column, tabWidth)
  ELSE sourceResult(src, sourceOut(parseSegments(sourceLines(src), lang),
                                   lang, column, tabWidth))

\* Source panics (integer divide by zero in displayWidth) while it renders
\* segments, or lines in plain-text mode.
sourcePanicsOn(lines, segments, lang, column, tabWidth) ==
  /\ tabWidth = 0
  /\ IF lang = Nil
     THEN wrapTextPanics(Join(lines, <<NL>>), <<>>, <<>>, column, tabWidth)
     ELSE \E k \in 1..Len(segments) :
            renderSegmentPanics(segments[k], lang, column, tabWidth)

SourcePanics(src, lang, column, tabWidth) ==
  sourcePanicsOn(sourceLines(src),
                 IF lang = Nil THEN <<>> ELSE parseSegments(sourceLines(src), lang),
                 lang, column, tabWidth)

(***************************************************************************)
(* processMarkdown.  The goldmark parser is outside the repository: the     *)
(* model takes what it reports, the first and the last text segment of      *)
(* each top-level paragraph (byte offsets into the normalised bytes), as    *)
(* an input.                                                                *)
(***************************************************************************)
\* byteOffsetToLine: the 0-indexed line of byte offset in src.
byteOffsetToLine(src, offset) ==
  Cardinality({i \in 0..(offset - 1) : i < Len(src) /\ src[i + 1] = NL})

\* The byte offset at which line n (1-indexed) of lines starts in their join.
RECURSIVE lineOffset(_, _)
lineOffset(lines, n) ==
  IF n <= 1 THEN 0 ELSE lineOffset(lines, n - 1) + Len(lines[n - 1]) + 1

\* The runs of consecutive numbers of the set S, from number n on, in order;
\* first is the first number of the run that n - 1 is in, 0 when none is open.
RECURSIVE runsFrom(_, _, _, _)
runsFrom(S, n, last, first) ==
  IF n > last
  THEN IF first > 0 THEN <<[first |-> first, last |-> last]>> ELSE <<>>
  ELSE IF n \in S
       THEN runsFrom(S, n + 1, last, IF first > 0 THEN first ELSE n)
       ELSE (IF first > 0 THEN <<[first |-> first, last |-> n - 1]>> ELSE <<>>)
            \o runsFrom(S, n + 1, last, 0)

\* What the parser may report for lines: for each top-level paragraph, a run of
\* non-blank lines, the segment of its first line (from its first non-blank
\* byte) and of its last line (to its last non-blank byte, or to the byte
\* after the newline that ends it when withNewline).
paragraphSegments(lines, S, withNewline) ==
  LET seg(r) ==
        [Start |-> lineOffset(lines, r.first) + LeadCount(lines[r.first], {SP, TAB}),
         Stop |-> lineOffset(lines, r.last)
                    + (IF withNewline /\ r.last < Len(lines) THEN Len(lines[r.last]) + 1
                       ELSE Len(TrimRight(lines[r.last], {SP, TAB})))]
      segs(runs) == [k \in 1..Len(runs) |-> seg(runs[k])]
  IN  segs(runsFrom(S, 1, Len(lines), 0))

\* The sets of lines the parser may take as the lines of top-level paragraphs.
paragraphChoices(lines) == SUBSET {n \in 1..Len(lines) : TrimSpace(lines[n]) # <<>>}

\* The line ranges of the paragraphs: start inclusive, end exclusive, 0-indexed.
lineRanges(normalized, segs) ==
  [k \in 1..Len(segs) |->
     [start |-> byteOffsetToLine(normalized, segs[k].Start),
      end |-> byteOffsetToLine(normalized, segs[k].Stop - 1) + 1]]

\* A loop that copies the lines of a paragraph after its wrapped text.
RECURSIVE markdownOutKeepingLines(_, _, _, _, _, _)
markdownOutKeepingLines(lines, paragraphs, k, i, column, tabWidth) ==
  IF k > Len(paragraphs) THEN SubSeq(lines, i + 1, Len(lines))
  ELSE SubSeq(lines, i + 1, paragraphs[k].start)
       \o wrapText(Join(SubSeq(lines, paragraphs[k].start + 1, paragraphs[k].end),
                        <<NL>>),
                   <<>>, <<>>, column, tabWidth)
       \o markdownOutKeepingLines(lines, paragraphs, k + 1, paragraphs[k].start,
                                  column, tabWidth)

\* The loop of processMarkdown over paragraphs[k..]; i is the 0-indexed next
\* line to copy.
RECURSIVE markdownOut(_, _, _, _, _, _)
markdownOut(lines, paragraphs, k, i, column, tabWidth) ==
  IF k > Len(paragraphs) THEN SubSeq(lines, i + 1, Len(lines))
  ELSE SubSeq(lines, i + 1, IF paragraphs[k].start < Len(lines)
                            THEN paragraphs[k].start ELSE Len(lines))
       \o wrapText(Join(SubSeq(lines, paragraphs[k].start + 1, paragraphs[k].end),
                        <<NL>>),
                   <<>>, <<>>, column, tabWidth)
       \o markdownOut(lines, paragraphs, k + 1, paragraphs[k].end, column, tabWidth)

\* processMarkdown on the paragraph segments segs the parser reported.
processMarkdown(src, segs, column, tabWidth) ==
  LET restore(normalized, result) ==
        IF Len(normalized) > 0 /\ normalized[Len(normalized)] = NL
           /\ ~HasSuffix(result, <<NL>>)
        THEN result \o <<NL>>
        ELSE result
      process(normalized) ==
        restore(normalized,
                Join(markdownOut(Split(normalized, <<NL>>), lineRanges(normalized, segs),
                                 1, 0, column, tabWidth),
                     <<NL>>))
  IN  process(ReplaceAll(ReplaceAll(src, <<CR, NL>>, <<NL>>), <<CR>>, <<NL>>))

(***************************************************************************)
(* The state machine: a caller types an input, one line at a time, and     *)
(* calls Source on it (and once more on what Source returned), or calls    *)
(* wrapText on it.                                                         *)
(***************************************************************************)
VARIABLES
  pool,              \* the lines the input is typed from
  limit,             \* the number of lines the input may hold
  filename,          \* resolveLanguage: the file name
  langOverride,      \* resolveLanguage: the value of the lang flag
  err,               \* resolveLanguage: the message of the error returned
  decoration,        \* isDecorationLine: the value returned
  content,           \* rewrapGoDocComment: doc.Content, the blocks parsed
  srcLines,          \* parseSegments: lines, the lines it was called on
  index,             \* parseSegments: i, the line its loop is at (1-based)
  paragraphs,        \* Source on markdown: the line ranges of the paragraphs
  src,               \* the input bytes typed so far
  open,              \* the last line typed ended in a newline (or none was typed)
  typed,             \* the number of lines typed
  pc,                \* "edit", "returned", "panicked", "wrapped", "resolved", "failed",
                     \* "measured", "decided", "rendered", "parsing",
                     \* "parsed"
  lang,              \* Source's lang argument
  column,            \* the column width argument
  tabWidth,          \* the tab width argument
  segments,          \* Source: the segments parseSegments returned
  out,               \* Source: the lines emitted for each segment, in order
  result,            \* Source: the bytes returned
  pass,              \* Source: 1 on the typed input, 2 on the result of pass 1
  prev,              \* Source: in pass 2, the bytes pass 1 returned
  prefix,            \* wrapText: the first-line prefix
  subsequentPrefix,  \* wrapText: the continuation prefix
  wrapped,           \* wrapText: the lines returned
  width              \* displayWidth: the width returned

vars == <<pool, limit, filename, langOverride, decoration, content, index, srcLines,
          err, paragraphs, src, open, typed, pc, lang, column, tabWidth, segments, out,
          result, pass, prev, prefix, subsequentPrefix, wrapped, width>>

MaxLines == 3
NarrowColumn == 5
WideColumn == 12
SmallTab == 2

\* The lines of the source files typed under Spec.
SourcePool ==
  { <<>>,
    <<SP>>,
    <<"a", CR>>,
    <<"/", "/", " ", "a", " ", "b", "b">>,
    <<"/", "/", "a">>,
    <<"/", "/">>,
    <<"/", "/", "=", "=">>,
    <<"/", "/", "g", "o", ":", "a">>,
    <<TAB, "/", "/", " ", "a", " ", "b", "b">>,
    <<"/", "*">>,
    <<" ", "*", "/">>,
    <<" ", "*", " ", "a", " ", "b", "b">>,
    <<"#", " ", "a", " ", "b", "b">> }

\* The languages Source is called with: nil, and one of each comment syntax.
Langs ==
  { Nil, LanguageFromName(<<"g", "o">>), LanguageFromName(<<"c">>),
    LanguageFromName(<<"p", "y", "t", "h", "o", "n">>) }

InitFiles(lines, maxLines, columns, tabWidths, names, overrides) ==
  /\ pool = lines
  /\ limit = maxLines
  /\ filename \in names
  /\ langOverride \in overrides
  /\ err = NoError
  /\ decoration = FALSE
  /\ content = <<>>
  /\ index = 0
  /\ srcLines = <<>>
  /\ paragraphs = <<>>
  /\ src = <<>>
  /\ open = TRUE
  /\ typed = 0
  /\ pc = "edit"
  /\ lang = Nil
  /\ column \in columns
  /\ tabWidth \in tabWidths
  /\ segments = <<>>
  /\ out = <<>>
  /\ result = <<>>
  /\ pass = 0
  /\ prev = <<>>
  /\ prefix = <<>>
  /\ subsequentPrefix = <<>>
  /\ wrapped = <<>>
  /\ width = 0

InitWith(lines, maxLines, columns, tabWidths) ==
  InitFiles(lines, maxLines, columns, tabWidths, {<<>>}, {<<>>})

Init == InitWith(SourcePool, MaxLines, {NarrowColumn, WideColumn}, {SmallTab})

\* The caller types one more line, newline included.
Type(line) ==
  /\ pc = "edit" /\ open /\ typed < limit
  /\ src' = src \o line \o <<NL>>
  /\ typed' = typed + 1
  /\ UNCHANGED <<pool, limit, filename, langOverride, decoration, content, index,
                 srcLines, err, paragraphs, open, pc, lang, column, tabWidth, segments,
                 out, result, pass, prev, prefix, subsequentPrefix, wrapped, width>>

\* The caller types a last line that has no newline.
TypeLast(line) ==
  /\ pc = "edit" /\ open /\ typed < limit /\ line # <<>>
  /\ src' = src \o line
  /\ typed' = typed + 1
  /\ open' = FALSE
  /\ UNCHANGED <<pool, limit, filename, langOverride, decoration, content, index,
                 srcLines, err, paragraphs, pc, lang, column, tabWidth, segments, out,
                 result, pass, prev, prefix, subsequentPrefix, wrapped, width>>

\* One call Source(input, l, column, tabWidth), recorded in the state.
Run(input, l) ==
  LET record(segs, lines, panics) ==
        /\ lang' = l
        /\ segments' = segs
        /\ IF panics
           THEN /\ pc' = "panicked"
                /\ out' = <<>>
                /\ result' = <<>>
           ELSE /\ pc' = "returned"
                /\ out' = lines
                /\ result' = IF l = Nil
                             THEN wrapPlainText(sourceLines(input), column, tabWidth)
                             ELSE sourceResult(input, lines)
      rendered(segs) ==
        record(segs, sourceOut(segs, l, column, tabWidth),
               sourcePanicsOn(sourceLines(input), segs, l, column, tabWidth))
  IN  rendered(IF l = Nil THEN <<>> ELSE parseSegments(sourceLines(input), l))

\* The caller calls Source on the typed input.
CallSource(l) ==
  /\ pc = "edit"
  /\ Run(src, l)
  /\ pass' = 1
  /\ UNCHANGED <<pool, limit, filename, langOverride, decoration, content, index,
                 srcLines, err, paragraphs, src, open, typed, column, tabWidth, prev,
                 prefix, subsequentPrefix, wrapped, width>>

\* The caller calls Source on what the first call returned (TestIdempotent).
CallAgain ==
  /\ pc = "returned" /\ pass = 1
  /\ Run(result, lang)
  /\ src' = result
  /\ prev' = result
  /\ pass' = 2
  /\ UNCHANGED <<pool, limit, filename, langOverride, decoration, content, index,
                 srcLines, err, paragraphs, open, typed, column, tabWidth, prefix,
                 subsequentPrefix, wrapped, width>>

Next ==
  \/ \E line \in pool : Type(line)
  \/ \E line \in pool : TypeLast(line)
  \/ \E l \in Langs : CallSource(l)
  \/ CallAgain

\* Source on source files, at the widths of its contract (both >= 1).
Spec == Init /\ [][Next]_vars

\* The lines typed under TotalSpec.
TotalPool ==
  { <<>>,
    <<"/", "/", " ", "a", " ", "b", "b">>,
    <<TAB, "/", "/", " ", "a", " ", "b", "b">>,
    <<TAB, "/", "*">>,
    <<" ", "*", "/">> }

TotalInit == InitWith(TotalPool, MaxLines, {-1, 0, NarrowColumn}, {-1, 0, SmallTab})

\* Source at any integer widths, zero and negative included.
TotalSpec == TotalInit /\ [][Next]_vars

MaxBlockLines == 4

\* The lines typed under BlockSpec: block comments and their blank bodies.
BlockPool ==
  { <<>>,
    <<"/", "*">>,
    <<" ", "*", "/">>,
    <<" ", "*", " ", "a", " ", "b", "b">>,
    <<"/", "*", " ", "a", " ", "*", "/">> }

BlockInit == InitWith(BlockPool, MaxBlockLines, {NarrowColumn, WideColumn}, {SmallTab})

\* Source on block comments of up to MaxBlockLines lines.
BlockSpec == BlockInit /\ [][Next]_vars

\* The file names execRoot resolves a language for; the empty name is stdin.
FileNames ==
  { <<>>,
    <<"a">>,
    <<"a", ".", "g", "o">>,
    <<"a", ".", "G", "O">>,
    <<"a", ".", "h">>,
    <<"a", ".", "t", "x", "t">>,
    <<"a", ".", "g", "o", "/", "b">>,
    <<"a", "/", "b", ".", "p", "y">>,
    <<".", "m", "d">>,
    <<"a", ".", "b", ".", "r", "s">>,
    <<"a", ".">> }

\* The values of the lang flag.
Overrides ==
  { <<>>,
    <<"t", "e", "x", "t">>,
    <<"T", "E", "X", "T">>,
    <<"g", "o">>,
    <<"G", "o">>,
    <<"G", "O">>,
    <<"p", "y", "t", "h", "o", "n">>,
    <<"c", "o", "b", "o", "l">>,
    <<"m", "a", "r", "k", "d", "o", "w", "n">>,
    <<"g", "O", " ">> }

ResolveInit == InitFiles({}, 0, {NarrowColumn}, {SmallTab}, FileNames, Overrides)

\* execRoot calls resolveLanguage(filename, langOverride).
ResolveLanguage ==
  LET return(r) ==
        /\ lang' = r.lang
        /\ err' = r.err
        /\ pc' = IF r.err = NoError THEN "resolved" ELSE "failed"
  IN  /\ pc = "edit"
      /\ return(resolveLanguage(filename, langOverride))
      /\ UNCHANGED <<pool, limit, filename, langOverride, decoration, content, index,
                     srcLines, paragraphs, src, open, typed, column, tabWidth, segments,
                     out, result, pass, prev, prefix, subsequentPrefix, wrapped, width>>

\* The language resolution of execRoot.
ResolveSpec == ResolveInit /\ [][ResolveLanguage]_vars

\* The lines typed under MarkdownSpec.
MarkdownPool ==
  { <<>>,
    <<"a", " ", "b", "b">>,
    <<" ", "b", "b", " ", " ", "a", " ">>,
    <<"#", " ", "a", " ", "b", "b">>,
    <<"a", "a", "a", "a", "a", "a", CR>> }

\* The number of lines typed under MarkdownSpec.
MaxMarkdownLines == 4

MarkdownInit ==
  InitWith(MarkdownPool, MaxMarkdownLines, {NarrowColumn, WideColumn}, {SmallTab})

\* The caller calls Source on the typed input with the markdown language; the
\* parser reports the lines of S as the lines of the top-level paragraphs.
CallMarkdown(S, withNewline) ==
  LET record(normalized, segs) ==
        /\ paragraphs' = lineRanges(normalized, segs)
        /\ result' = processMarkdown(src, segs, column, tabWidth)
      parsed(normalized) ==
        record(normalized, paragraphSegments(Split(normalized, <<NL>>), S, withNewline))
  IN  /\ pc = "edit"
      /\ parsed(ReplaceAll(ReplaceAll(src, <<CR, NL>>, <<NL>>), <<CR>>, <<NL>>))
      /\ lang' = LanguageFromName(<<"m", "a", "r", "k", "d", "o", "w", "n">>)
      /\ pc' = "returned"
      /\ pass' = 1
      /\ UNCHANGED <<pool, limit, filename, langOverride, decoration, content, index,
                     srcLines, err, src, open, typed, column, tabWidth, segments, out,
                     prev, prefix, subsequentPrefix, wrapped, width>>

MarkdownNext ==
  \/ \E line \in pool : Type(line)
  \/ \E line \in pool : TypeLast(line)
  \/ \E S \in paragraphChoices(sourceLines(src)) :
       \E withNewline \in BOOLEAN : CallMarkdown(S, withNewline)

\* Source on markdown files.
MarkdownSpec == MarkdownInit /\ [][MarkdownNext]_vars

\* The lines of the texts typed under WrapSpec.
TextPool ==
  { <<>>,
    <<SP>>,
    <<"a">>,
    <<"a", " ", "b", "b">>,
    <<"b", "b", " ", " ", "a">>,
    <<"a", "a", "a", "a", "a", "a">> }

\* The (first-line, continuation) prefix pairs wrapText is called with.
PrefixPairs ==
  { << <<>>, <<>> >>,
    << <<"/", "/", " ">>, <<"/", "/", " ">> >>,
    << <<TAB, "/", "/", " ">>, <<TAB, "/", "/", " ">> >>,
    << <<"-", " ">>, <<" ", " ">> >> }

TinyColumn == 2

\* The number of lines of a text typed under WrapSpec.
MaxTextLines == 4

WrapInit == InitWith(TextPool, MaxTextLines, {TinyColumn, NarrowColumn, WideColumn}, {SmallTab})

\* The caller calls wrapText(src, p, sp, column, tabWidth).
CallWrapText(p, sp) ==
  /\ pc = "edit"
  /\ prefix' = p
  /\ subsequentPrefix' = sp
  /\ IF wrapTextPanics(src, p, sp, column, tabWidth)
     THEN pc' = "panicked" /\ wrapped' = <<>>
     ELSE pc' = "wrapped" /\ wrapped' = wrapText(src, p, sp, column, tabWidth)
  /\ UNCHANGED <<pool, limit, filename, langOverride, decoration, content, index,
                 srcLines, err, paragraphs, src, open, typed, lang, column, tabWidth,
                 segments, out, result, pass, prev, width>>

WrapNext ==
  \/ \E line \in pool : Type(line)
  \/ \E line \in pool : TypeLast(line)
  \/ \E pp \in PrefixPairs : CallWrapText(pp[1], pp[2])

\* wrapText on texts, at the widths of its contract.
WrapSpec == WrapInit /\ [][WrapNext]_vars

AnyWidthInit == InitWith(TextPool, MaxTextLines, {-1, 0, NarrowColumn}, {-1, 0, SmallTab})

\* wrapText at any integer widths, zero and negative included.
AnyWidthSpec == AnyWidthInit /\ [][WrapNext]_vars

\* The lines of the strings typed under DisplaySpec.
DisplayPool ==
  { <<>>,
    <<TAB>>,
    <<"a">>,
    <<"a", TAB, "b">>,
    <<"a", "b", TAB>>,
    <<TAB, TAB, "a">> }

WideTab == 4

DisplayInit == InitWith(DisplayPool, MaxLines, {NarrowColumn}, {1, SmallTab, WideTab})

\* The caller calls displayWidth(src, tabWidth).
CallDisplayWidth ==
  /\ pc = "edit"
  /\ width' = displayWidth(src, tabWidth)
  /\ pc' = "measured"
  /\ UNCHANGED <<pool, limit, filename, langOverride, decoration, content, index,
                 srcLines, err, paragraphs, src, open, typed, lang, column, tabWidth,
                 segments, out, result, pass, prev, prefix, subsequentPrefix, wrapped>>

DisplayNext ==
  \/ \E line \in pool : Type(line)
  \/ \E line \in pool : TypeLast(line)
  \/ CallDisplayWidth

\* displayWidth on strings, at tab widths of one and more.
DisplaySpec == DisplayInit /\ [][DisplayNext]_vars

\* The lines of the contents typed under DecorationSpec.
DecorationPool ==
  { <<>>,
    <<SP>>,
    <<"=", "=">>,
    <<"-", "*", "#", "~", "+", "_", ".">>,
    <<SP, "-", "-", TAB>>,
    <<"a">>,
    <<"=", SP, "=">>,
    <<"=", "=", SP, "a", SP, "=", "=">>,
    <<"=", "/">> }

DecorationInit == InitWith(DecorationPool, MaxLines, {NarrowColumn}, {SmallTab})

\* The caller calls isDecorationLine(src).
CallIsDecorationLine ==
  /\ pc = "edit"
  /\ decoration' = isDecorationLine(src)
  /\ pc' = "decided"
  /\ UNCHANGED <<pool, limit, filename, langOverride, content, index, srcLines, err,
                 paragraphs, src, open, typed, lang, column, tabWidth, segments, out,
                 result, pass, prev, prefix, subsequentPrefix, wrapped, width>>

DecorationNext ==
  \/ \E line \in pool : Type(line)
  \/ \E line \in pool : TypeLast(line)
  \/ CallIsDecorationLine

\* isDecorationLine on contents.
DecorationSpec == DecorationInit /\ [][DecorationNext]_vars

\* The text lines typed under GoDocSpec: the lines of a Go comment as flush
\* hands them over, the // and the space after it cut off.
GoDocPool ==
  { <<>>,
    <<"a", SP, "b", "b">>,
    <<SP, SP, "-", SP, "a", SP, "b", "b">>,
    <<SP, SP, "1", ".", SP, "a">>,
    <<SP, SP, SP, SP, "b", "b">>,
    <<TAB, "a", SP, "b", "b", SP, "c", "c">>,
    <<"#", SP, "a">> }

MaxGoDocLines == 4

GoDocInit == InitWith(GoDocPool, MaxGoDocLines, {NarrowColumn, WideColumn}, {SmallTab})

\* flush calls rewrapGoDocComment(textLines, indent, column, tabWidth) on the
\* typed text lines.
CallRewrapGoDocComment(indent) ==
  /\ pc = "edit"
  /\ content' = Parse(src)
  /\ prefix' = indent \o Slashes \o <<SP>>
  /\ wrapped' = rewrapGoDocComment(Split(src, <<NL>>), indent, column, tabWidth)
  /\ pc' = "rendered"
  /\ UNCHANGED <<pool, limit, filename, langOverride, decoration, index, srcLines, err,
                 paragraphs, src, open, typed, lang, column, tabWidth, segments, out,
                 result, pass, prev, subsequentPrefix, width>>

GoDocNext ==
  \/ \E line \in pool : Type(line)
  \/ \E line \in pool : TypeLast(line)
  \/ \E indent \in {<<>>, <<TAB>>} : CallRewrapGoDocComment(indent)

\* rewrapGoDocComment on the text lines of Go comments.
GoDocSpec == GoDocInit /\ [][GoDocNext]_vars

\* Lines with text around comment tokens: after a block end, before a line
\* marker, before a block start.
TrailingPool ==
  { <<>>,
    <<"/", "*">>,
    <<"/", "*", SP, "a", SP, "b", "b">>,
    <<SP, "*", "/", SP, "a">>,
    <<"/", "/", SP, "a", SP, "b", "b">>,
    <<"a", SP, "/", "/", SP, "a", SP, "b", "b">>,
    <<"a", SP, "/", "*", SP, "a">> }

TrailingInit == InitWith(TrailingPool, MaxLines, {NarrowColumn}, {SmallTab})

\* Source on files made of those lines.
TrailingSpec == TrailingInit /\ [][Next]_vars

\* Source calls parseSegments(lines, l) on the typed input.
StartParseSegments(l) ==
  /\ pc = "edit"
  /\ lang' = l
  /\ srcLines' = sourceLines(src)
  /\ segments' = <<>>
  /\ index' = 1
  /\ pc' = "parsing"
  /\ UNCHANGED <<pool, limit, filename, langOverride, decoration, content, err,
                 paragraphs, src, open, typed, column, tabWidth, out, result, pass,
                 prev, prefix, subsequentPrefix, wrapped, width>>

\* One iteration of the loop of parseSegments.
ParseSegmentsStep ==
  /\ pc = "parsing"
  /\ index <= Len(srcLines)
  /\ \E r \in {parseSegmentsStep(srcLines, index, lang)} :
       /\ segments' = Append(segments, r.seg)
       /\ index' = r.end
  /\ UNCHANGED <<pool, limit, filename, langOverride, decoration, content, srcLines,
                 err, paragraphs, src, open, typed, pc, lang, column, tabWidth, out,
                 result, pass, prev, prefix, subsequentPrefix, wrapped, width>>

\* The loop of parseSegments ends and parseSegments returns.
ParseSegmentsReturn ==
  /\ pc = "parsing"
  /\ index > Len(srcLines)
  /\ pc' = "parsed"
  /\ UNCHANGED <<pool, limit, filename, langOverride, decoration, content, index,
                 srcLines, err, paragraphs, src, open, typed, lang, column, tabWidth,
                 segments, out, result, pass, prev, prefix, subsequentPrefix, wrapped,
                 width>>

ParseNext ==
  \/ \E line \in pool : Type(line)
  \/ \E line \in pool : TypeLast(line)
  \/ \E l \in Langs : StartParseSegments(l)
  \/ ParseSegmentsStep
  \/ ParseSegmentsReturn

\* parseSegments step by step; a call that has started keeps running.
ParseSpec ==
  /\ TrailingInit
  /\ [][ParseNext]_vars
  /\ WF_vars(ParseSegmentsStep)
  /\ WF_vars(ParseSegmentsReturn)

(***************************************************************************)
(* The properties.                                                         *)
(***************************************************************************)
\* C1: Source is idempotent: Source called on the bytes Source returned, with
\* the same language, column width and tab width, returns those bytes again.
C1_Idempotent == (pc = "returned" /\ pass = 2) => result = prev

\* The prefix wrapText put on line n of what it returned.
linePrefix(n) == IF n = 1 THEN prefix ELSE subsequentPrefix

\* The tokens line n of what wrapText returned carries after its prefix; none
\* when the line is a prefix cut short (a paragraph separator).
lineTokens(n) ==
  IF HasPrefix(wrapped[n], linePrefix(n))
  THEN Fields(SubSeq(wrapped[n], Len(linePrefix(n)) + 1, Len(wrapped[n])))
  ELSE <<>>

\* Line n carries a single token that is wider than columnWidth - displayWidth(prefix).
loneWideToken(n) ==
  /\ Len(lineTokens(n)) = 1
  /\ displayWidth(lineTokens(n)[1], tabWidth)
       > column - displayWidth(linePrefix(n), tabWidth)

wordsOf(textLines) == Flatten([i \in 1..Len(textLines) |-> Fields(textLines[i])])

\* The sequences a and b hold the same words, each as many times.
sameWords(a, b) ==
  /\ Range(a) = Range(b)
  /\ \A w \in Range(a) :
       Cardinality({i \in 1..Len(a) : a[i] = w}) = Cardinality({i \in 1..Len(b) : b[i] = w})

\* The words of the lines of a line-comment run: each line without its indent
\* and its comment marker.
commentWords(lines, seg) ==
  wordsOf([i \in 1..Len(lines) |->
             TrimPrefix(TrimLeft(lines[i], {SP, TAB}), TrimRight(seg.marker, {SP}))])

\* The words of the lines of a block comment: each line without its indent, the
\* block start and end tokens and the leading continuation star.
blockWords(lines, seg) ==
  wordsOf(blockTextLines(segment(segmentBlock, lines, seg.indent, <<>>), lang))

\* C3: rendering a comment segment keeps the multiset of the words of its
\* content: no word is dropped, cut or altered.
C3_Conservation ==
  (pc = "returned" /\ lang # Nil) =>
    \A k \in 1..Len(segments) :
      /\ segments[k].typ = segmentComment =>
           sameWords(commentWords(segments[k].lines, segments[k]),
                     commentWords(out[k], segments[k]))
      /\ (segments[k].typ = segmentBlock /\ Len(segments[k].lines) > 1) =>
           sameWords(blockWords(segments[k].lines, segments[k]),
                     blockWords(out[k], segments[k]))

\* The bytes s end with a line ending.
EndsWithNewline(s) == s # <<>> /\ s[Len(s)] \in {NL, CR}

\* C4: the bytes Source returns end with a newline if and only if its input is
\* not empty and ends with a newline.
C4_TrailingNewline == pc = "returned" => (HasSuffix(result, <<NL>>) <=> EndsWithNewline(src))

\* C5: Source never fails, whatever the input, the language and the integer
\* column width and tab width, zero and negative widths included.
C5_Total == pc # "panicked"

\* The number of input lines in the segments before segment k.
inStart(k) == Len(Flatten([j \in 1..(k - 1) |-> segments[j].lines]))

\* The number of lines Source emitted for the segments before segment k.
outStart(k) == Len(Flatten([j \in 1..(k - 1) |-> out[j]]))

\* The segment that holds input line n.
segIndex(n) ==
  CHOOSE k \in 1..Len(segments) :
    inStart(k) < n /\ n <= inStart(k) + Len(segments[k].lines)

\* The line of the bytes returned at the place of input line n, a line of a
\* Code segment: as far into the output of its segment as n is into the segment.
emittedAt(n) ==
  Split(result, <<NL>>)[outStart(segIndex(n)) + (n - inStart(segIndex(n)))]

\* C6: every input line of a Code segment is in the bytes returned, unchanged,
\* at its place among the lines emitted for the segments around it.
C6_CodePassThrough ==
  (pc = "returned" /\ lang # Nil) =>
    \A n \in 1..Len(sourceLines(src)) :
      segments[segIndex(n)].typ = segmentCode => emittedAt(n) = sourceLines(src)[n]

\* Source returned with a Code segment of a visible line behind a comment
\* segment that was emitted on another number of lines than it had.
C6_Witness ==
  /\ pc = "returned" /\ lang # Nil
  /\ \E k \in 2..Len(segments) :
       /\ segments[k].typ = segmentCode
       /\ TrimSpace(segments[k].lines[1]) # <<>>
       /\ segments[k - 1].typ = segmentComment
       /\ Len(out[k - 1]) # Len(segments[k - 1].lines)

\* The text of a comment line after its indent and its own marker (the marker
\* with the space that follows it, if one does).
ownContent(line) ==
  SubSeq(TrimLeft(line, {SP, TAB}), Len(matchLineComment(line, lang).marker) + 1,
         Len(TrimLeft(line, {SP, TAB})))

\* The lines of a line-comment run whose content is a decoration line, in order.
RECURSIVE decorationLines(_)
decorationLines(lines) ==
  IF lines = <<>> THEN <<>>
  ELSE (IF matchLineComment(lines[1], lang).ok /\ isDecorationLine(ownContent(lines[1]))
        THEN <<lines[1]>> ELSE <<>>)
       \o decorationLines(Tail(lines))

\* The elements of a are elements of b, in the order of a.
RECURSIVE isSubsequence(_, _)
isSubsequence(a, b) ==
  IF a = <<>> THEN TRUE
  ELSE IF b = <<>> THEN FALSE
  ELSE IF a[1] = b[1] THEN isSubsequence(Tail(a), Tail(b))
  ELSE isSubsequence(a, Tail(b))

\* C7: the decoration lines of a line-comment segment are among the lines
\* emitted for the segment, unchanged and in their order, whatever form of the
\* marker they use.
C7_DecorationPreserved ==
  (pc = "returned" /\ lang # Nil) =>
    \A k \in 1..Len(segments) :
      segments[k].typ = segmentComment =>
        isSubsequence(decorationLines(segments[k].lines), out[k])

\* C8: the segments parseSegments returns are not empty, and their lines, one
\* segment after the other, are the input lines.
C8_SegmentTiling ==
  pc = "returned" =>
    /\ \A k \in 1..Len(segments) : Len(segments[k].lines) > 0
    /\ lang # Nil =>
         Flatten([k \in 1..Len(segments) |-> segments[k].lines]) = sourceLines(src)
    /\ \A k \in 1..Len(parseSegments(sourceLines(src), Nil)) :
         Len(parseSegments(sourceLines(src), Nil)[k].lines) > 0
    /\ Flatten([k \in 1..Len(parseSegments(sourceLines(src), Nil)) |->
                  parseSegments(sourceLines(src), Nil)[k].lines]) = sourceLines(src)

\* parseSegments returned a line-comment segment and a block comment of two
\* lines or more.
C8_Witness ==
  /\ pc = "returned"
  /\ \E k \in 1..Len(segments) : segments[k].typ = segmentComment
  /\ \E k \in 1..Len(segments) :
       segments[k].typ = segmentBlock /\ Len(segments[k].lines) > 1

\* The text of line right after a line-comment marker of the language begins
\* with one of its directive prefixes.
isDirectiveLine(line) ==
  \E k \in 1..Len(lang.LineMarkers) :
    /\ HasPrefix(TrimLeft(line, {SP, TAB}), lang.LineMarkers[k])
    /\ FirstPrefixOf(SubSeq(TrimLeft(line, {SP, TAB}), Len(lang.LineMarkers[k]) + 1,
                            Len(TrimLeft(line, {SP, TAB}))),
                     lang.Directives) > 0

\* C9: a directive line is in no line-comment segment, and when it is in a Code
\* segment (it is outside every block comment) it is in the bytes returned,
\* unchanged, at its place.
C9_DirectiveSuppression ==
  (pc = "returned" /\ lang # Nil) =>
    \A n \in 1..Len(sourceLines(src)) :
      isDirectiveLine(sourceLines(src)[n]) =>
        /\ segments[segIndex(n)].typ # segmentComment
        /\ segments[segIndex(n)].typ = segmentCode => emittedAt(n) = sourceLines(src)[n]

\* Source returned with a directive line that ends the line-comment run before it.
C9_Witness ==
  /\ pc = "returned" /\ lang # Nil
  /\ \E k \in 2..Len(segments) :
       /\ segments[k - 1].typ = segmentComment
       /\ segments[k].typ = segmentCode
       /\ isDirectiveLine(segments[k].lines[1])
       /\ inStart(k) + Len(segments[k].lines) < Len(sourceLines(src))

\* Input line i starts with a block-start token, and neither it nor a line
\* after it holds the block-end token.
unterminatedAt(i) ==
  /\ Len(lang.BlockStart) > 0
  /\ FirstPrefixOf(TrimLeft(sourceLines(src)[i], {SP, TAB}), lang.BlockStart) > 0
  /\ \A j \in i..Len(sourceLines(src)) : ~Contains(sourceLines(src)[j], lang.BlockEnd[1])

\* C10: from a block-start line that is never closed to the end of the input,
\* every line is in a Code segment and in the bytes returned, unchanged, and
\* Source returns.
C10_UnterminatedBlock ==
  (pc # "edit" /\ lang # Nil) =>
    \A i \in 1..Len(sourceLines(src)) :
      unterminatedAt(i) =>
        /\ pc = "returned"
        /\ \A n \in i..Len(sourceLines(src)) :
             /\ segments[segIndex(n)].typ = segmentCode
             /\ emittedAt(n) = sourceLines(src)[n]

\* Source returned on an input with a block-start line that is never closed
\* and, after it, a line that looks like a line comment.
C10_Witness ==
  /\ pc = "returned" /\ lang # Nil
  /\ \E i \in 1..Len(sourceLines(src)) :
       /\ unterminatedAt(i)
       /\ \E n \in (i + 1)..Len(sourceLines(src)) :
            matchLineComment(sourceLines(src)[n], lang).ok

\* What line n (1-indexed) of a markdown file becomes, from the line ranges
\* alone: outside every range, itself; the first line of a range, the wrapped
\* text of the range; any other line of a range, nothing.
markdownLine(lines, ranges, n) ==
  IF \E k \in 1..Len(ranges) : ranges[k].start + 1 = n
  THEN LET r == CHOOSE r \in Range(ranges) : r.start + 1 = n
       IN  wrapText(Join(SubSeq(lines, r.start + 1, r.end), <<NL>>),
                    <<>>, <<>>, column, tabWidth)
  ELSE IF \E k \in 1..Len(ranges) : ranges[k].start < n /\ n <= ranges[k].end
       THEN <<>>
       ELSE <<lines[n]>>

\* The line ranges are in order and do not overlap.
rangesInOrder(ranges, count) ==
  /\ \A k \in 1..Len(ranges) :
       0 <= ranges[k].start /\ ranges[k].start < ranges[k].end /\ ranges[k].end <= count
  /\ \A k \in 1..(Len(ranges) - 1) : ranges[k].end <= ranges[k + 1].start

\* C11: in markdown mode, given the line ranges of the top-level paragraphs
\* (in order, not overlapping), the output is the input lines in order, each
\* line outside the ranges copied as it is and each range replaced, in its
\* place, by the wrapped text of its joined lines with empty prefixes.
C11_MarkdownFrame ==
  (pc = "returned" /\ rangesInOrder(paragraphs, Len(sourceLines(src))))
    => Split(result, <<NL>>)
         = Flatten([n \in 1..Len(sourceLines(src)) |->
                      markdownLine(sourceLines(src), paragraphs, n)])

\* A paragraph of two lines that wraps into another number of lines, with a
\* line kept before it and a line kept after it.
C11_Witness ==
  /\ pc = "returned"
  /\ \E k \in 1..Len(paragraphs) :
       /\ paragraphs[k].start > 0
       /\ paragraphs[k].end < Len(sourceLines(src)) - 1
       /\ paragraphs[k].end - paragraphs[k].start = 2
       /\ Len(markdownLine(sourceLines(src), paragraphs, paragraphs[k].start + 1)) # 2
       /\ TrimSpace(sourceLines(src)[paragraphs[k].start]) # <<>>

\* C12: wrapText called on the empty text returns one line, the first-line
\* prefix, whatever the prefixes, the column width and the tab width are.
C12_EmptyText ==
  (pc \in {"wrapped", "panicked"} /\ src = <<>>)
    => (pc = "wrapped" /\ wrapped = <<prefix>>)

\* wrapText returned for the empty text, called with a first-line prefix that
\* differs from the continuation prefix, at a tab width of zero and a column
\* width of zero or less.
C12_Witness ==
  /\ pc = "wrapped" /\ src = <<>> /\ wrapped = <<prefix>>
  /\ prefix # subsequentPrefix /\ tabWidth = 0 /\ column <= 0

\* The paragraphs of the text: its maximal runs of lines that are not blank.
textParagraphs ==
  runsFrom({n \in 1..Len(Split(src, <<NL>>)) : TrimSpace(Split(src, <<NL>>)[n]) # <<>>},
           1, Len(Split(src, <<NL>>)), 0)

\* The maximal runs of lines of what wrapText returned that carry tokens.
wrappedRuns ==
  runsFrom({n \in 1..Len(wrapped) : lineTokens(n) # <<>>}, 1, Len(wrapped), 0)

\* C13: for a text of k >= 1 paragraphs separated by blank lines, wrapText
\* returns k runs of lines, run j carrying the words of paragraph j in order
\* and no other word, with one separator line between consecutive runs, the
\* continuation prefix with its trailing spaces trimmed, and no other line.
C13_ParagraphBreaks ==
  (pc = "wrapped" /\ Len(textParagraphs) >= 1) =>
    /\ Len(wrappedRuns) = Len(textParagraphs)
    /\ wrappedRuns[1].first = 1
    /\ wrappedRuns[Len(wrappedRuns)].last = Len(wrapped)
    /\ \A j \in 1..Len(wrappedRuns) :
         Flatten([n \in 1..(wrappedRuns[j].last - wrappedRuns[j].first + 1) |->
                    lineTokens(wrappedRuns[j].first + n - 1)])
           = wordsOf(SubSeq(Split(src, <<NL>>), textParagraphs[j].first,
                            textParagraphs[j].last))
    /\ \A j \in 1..(Len(wrappedRuns) - 1) :
         /\ wrappedRuns[j + 1].first = wrappedRuns[j].last + 2
         /\ wrapped[wrappedRuns[j].last + 1] = TrimRight(subsequentPrefix, {SP})

\* wrapText returned for two paragraphs with two blank lines between them, the
\* first wrapped into two lines, under a continuation prefix that ends with a
\* space.
C13_Witness ==
  /\ pc = "wrapped"
  /\ Len(textParagraphs) = 2
  /\ textParagraphs[2].first >= textParagraphs[1].last + 3
  /\ Len(wrappedRuns) = 2 /\ wrappedRuns[1].last = 2
  /\ TrimRight(subsequentPrefix, {SP}) # subsequentPrefix

\* The strings a and b are equal up to the case of their letters.
equalFold(a, b) == ToLower(a) = ToLower(b)

\* The entries of the table whose name is name up to case.
entriesNamed(name) == {i \in 1..Len(languages) : equalFold(languages[i].Name, name)}

\* The entries of the table that list, up to case, an extension the file name
\* ends with.
entriesForFile(name) ==
  {i \in 1..Len(languages) :
     \E e \in Range(Extensions[i]) :
       /\ Len(e) <= Len(name)
       /\ equalFold(SubSeq(name, Len(name) - Len(e) + 1, Len(name)), e)}

\* C14: resolveLanguage returns no language and no error for the override
\* "text"; for any other non-empty override, the entry of that name up to
\* case, and an "unknown language" error exactly when there is none, whatever
\* the file name; for the empty override, the entry of the file name's
\* extension without error, and no language when there is none.
C14_LanguageResolution ==
  pc \in {"resolved", "failed"} =>
    IF langOverride = <<"t", "e", "x", "t">>
    THEN lang = Nil /\ err = NoError
    ELSE IF langOverride # <<>>
    THEN /\ (err # NoError) <=> (entriesNamed(langOverride) = {})
         /\ err # NoError => (err = UnknownLanguage \o langOverride /\ lang = Nil)
         /\ err = NoError => \E i \in entriesNamed(langOverride) : lang = languages[i]
    ELSE /\ err = NoError
         /\ IF entriesForFile(filename) = {} THEN lang = Nil
            ELSE \E i \in entriesForFile(filename) : lang = languages[i]

\* An override in upper case resolved against a file of another language.
C14_Witness ==
  /\ pc = "resolved"
  /\ langOverride = <<"G", "O">>
  /\ filename = <<"a", "/", "b", ".", "p", "y">>
  /\ lang = languages[1]

\* The column reached after the first n characters of s: a tab moves to the
\* least multiple of tabWidth above the column, any other character by one.
RECURSIVE columnAfter(_, _, _)
columnAfter(s, n, tab) ==
  IF n = 0 THEN 0
  ELSE LET col == columnAfter(s, n - 1, tab)
       IN  IF s[n] = TAB
           THEN CHOOSE m \in (col + 1)..(col + tab) : m % tab = 0
           ELSE col + 1

\* C15: for tabWidth >= 1, displayWidth(s, tabWidth) is the column reached by
\* scanning s from column 0, a tab moving to the next multiple of tabWidth
\* above the column and any other character by one: 0 for the empty string,
\* tabWidth for a lone tab, 5 for a, tab, b at tab width 4.
C15_DisplayWidth ==
  (pc = "measured" /\ tabWidth >= 1) =>
    /\ width = columnAfter(src, Len(src), tabWidth)
    /\ src = <<>> => width = 0
    /\ src = <<TAB>> => width = tabWidth
    /\ (src = <<"a", TAB, "b">> /\ tabWidth = 4) => width = 5

\* displayWidth measured a, tab, b at tab width 4.
C15_Witness ==
  /\ pc = "measured" /\ tabWidth = 4
  /\ src = <<"a", TAB, "b">> /\ width = 5

\* The width available on line n of what wrapText returned.
availableOn(n) == Max(column - displayWidth(linePrefix(n), tabWidth), 1)

\* The width of the first k tokens of line n, one space between them.
widthOfTokens(n, k) == displayWidth(Join(SubSeq(lineTokens(n), 1, k), <<SP>>), tabWidth)

lineContent(n) == SubSeq(wrapped[n], Len(linePrefix(n)) + 1, Len(wrapped[n]))

\* C17: tokens that stay on one output line are separated by the whitespace
\* that separated them in the text: for a text of one line, every line
\* wrapText returns holds, after its prefix, a piece of the text as typed.
C17_GapPreservation ==
  (pc = "wrapped" /\ NL \notin Range(src)) =>
    \A n \in 1..Len(wrapped) :
      lineTokens(n) # <<>> => Contains(src, lineContent(n))

\* The leading whitespace of line.
lineIndent(line) == SubSeq(line, 1, LeadCount(line, {SP, TAB}))

\* The line-comment token of the language that line starts with after its
\* indent; empty when it starts with none.
baseMarkerOf(line) ==
  IF FirstPrefixOf(TrimLeft(line, {SP, TAB}), lang.LineMarkers) = 0 THEN <<>>
  ELSE lang.LineMarkers[FirstPrefixOf(TrimLeft(line, {SP, TAB}), lang.LineMarkers)]

\* line is a line comment of the language and not a directive.
isCommentLine(line) == baseMarkerOf(line) # <<>> /\ ~isDirectiveLine(line)

\* line has a space right after its line-comment token.
hasSpacedMarker(line) ==
  HasPrefix(TrimLeft(line, {SP, TAB}), baseMarkerOf(line) \o <<SP>>)

\* The lines a and b can be in one line-comment run.
sameRun(a, b) ==
  /\ isCommentLine(a) /\ isCommentLine(b)
  /\ lineIndent(a) = lineIndent(b)
  /\ baseMarkerOf(a) = baseMarkerOf(b)

\* C18: the lines of a line-comment segment are line comments, none a
\* directive, of one indent and one base marker, lines with a bare marker and
\* lines with a marker and a space alike; the line after the segment is not
\* such a line; the segment's indent is that indent and its marker the marker
\* and a space when a line of the run has it, else the bare marker.
C18_LineCommentRun ==
  (pc = "returned" /\ lang # Nil) =>
    \A k \in 1..Len(segments) :
      segments[k].typ = segmentComment =>
        /\ \A i \in 1..Len(segments[k].lines) :
             sameRun(segments[k].lines[1], segments[k].lines[i])
        /\ inStart(k) + Len(segments[k].lines) < Len(sourceLines(src)) =>
             ~sameRun(segments[k].lines[1],
                      sourceLines(src)[inStart(k) + Len(segments[k].lines) + 1])
        /\ segments[k].indent = lineIndent(segments[k].lines[1])
        /\ segments[k].marker =
             IF \E i \in 1..Len(segments[k].lines) : hasSpacedMarker(segments[k].lines[i])
             THEN baseMarkerOf(segments[k].lines[1]) \o <<SP>>
             ELSE baseMarkerOf(segments[k].lines[1])

\* parseSegments returned a run that begins with a bare-marker line, holds a
\* line with a marker and a space, and ends at a comment line of another
\* indent.
C18_Witness ==
  /\ pc = "returned" /\ lang # Nil
  /\ \E k \in 1..(Len(segments) - 1) :
       /\ segments[k].typ = segmentComment
       /\ Len(segments[k].lines) = 2
       /\ ~hasSpacedMarker(segments[k].lines[1])
       /\ hasSpacedMarker(segments[k].lines[2])
       /\ segments[k].marker = baseMarkerOf(segments[k].lines[1]) \o <<SP>>
       /\ isCommentLine(segments[k + 1].lines[1])
       /\ lineIndent(segments[k + 1].lines[1]) # segments[k].indent

\* C19: no two consecutive segments of what parseSegments returns are both
\* Code segments, whatever the input, code lines followed by a block-comment
\* start that is never closed included.
C19_SegmentMaximality ==
  pc = "returned" =>
    \A k \in 1..(Len(segments) - 1) :
      ~(segments[k].typ = segmentCode /\ segments[k + 1].typ = segmentCode)

\* The prefix of the body lines of a block comment of the language at indent.
bodyPrefix(indent) ==
  indent \o (IF lang.BlockPrefix = <<>> THEN StarPrefix ELSE lang.BlockPrefix)

\* The lines emitted for a block comment of two lines or more have the shape:
\* indent and start token; then one body line or more, each beginning with
\* the body prefix or equal to it with its trailing spaces trimmed; then
\* indent, a space and the end token.
blockShape(emitted, indent) ==
  /\ Len(emitted) >= 3
  /\ emitted[1] = indent \o lang.BlockStart[1]
  /\ emitted[Len(emitted)] = indent \o <<SP>> \o lang.BlockEnd[1]
  /\ \A i \in 2..(Len(emitted) - 1) :
       \/ HasPrefix(emitted[i], bodyPrefix(indent))
       \/ emitted[i] = TrimRight(bodyPrefix(indent), {SP})

\* C20: a block comment of one line is emitted as it is; one of two lines or
\* more is emitted as indent and start token, one or more body lines, then
\* indent, a space and the end token, the indent being the leading whitespace
\* of its first line.
C20_BlockShape ==
  (pc = "returned" /\ lang # Nil) =>
    \A k \in 1..Len(segments) :
      segments[k].typ = segmentBlock =>
        IF Len(segments[k].lines) = 1 THEN out[k] = segments[k].lines
        ELSE blockShape(out[k], lineIndent(segments[k].lines[1]))

\* line is a comment line whose content is a decoration line.
isDecoration(line) ==
  matchLineComment(line, lang).ok /\ isDecorationLine(ownContent(line))

\* The words of the lines of a line-comment run that are not decoration lines.
textWords(lines, seg) ==
  commentWords(SelectSeq(lines, LAMBDA line : ~isDecoration(line)), seg)

\* C21: a decoration line of a line-comment segment is a wrap boundary: it is
\* emitted at a place such that the words of the lines before it are the words
\* emitted before that place and the words of the lines after it are the words
\* emitted after that place, so that no emitted line holds words of both sides.
C21_DecorationBoundary ==
  (pc = "returned" /\ lang # Nil) =>
    \A k \in 1..Len(segments) :
      segments[k].typ = segmentComment =>
        \A d \in 1..Len(segments[k].lines) :
          isDecoration(segments[k].lines[d]) =>
            \E p \in 1..Len(out[k]) :
              /\ isDecoration(out[k][p])
              /\ sameWords(textWords(SubSeq(segments[k].lines, 1, d - 1), segments[k]),
                           textWords(SubSeq(out[k], 1, p - 1), segments[k]))
              /\ sameWords(textWords(SubSeq(segments[k].lines, d + 1,
                                            Len(segments[k].lines)), segments[k]),
                           textWords(SubSeq(out[k], p + 1, Len(out[k])), segments[k]))

\* The places of the characters of s that are not whitespace.
inkOf(s) == {i \in 1..Len(s) : ~IsSpace(s[i])}

\* C22: isDecorationLine(content) is true exactly when content has a character
\* that is not whitespace and every character from its first such character
\* to its last is one of = - * # ~ + _ . ; so it is false for the empty
\* content, for whitespace, for a letter, and for runs of punctuation with a
\* space or a word between them.
C22_DecorationPredicate ==
  pc = "decided" =>
    /\ decoration <=>
         /\ inkOf(src) # {}
         /\ \A i \in 1..Len(src) :
              ((\E j \in inkOf(src) : j <= i) /\ (\E j \in inkOf(src) : i <= j))
                => src[i] \in {"=", "-", "*", "#", "~", "+", "_", "."}
    /\ src \in {<<>>, <<SP>>, <<"a">>, <<"=", SP, "=">>,
                <<"=", "=", SP, "a", SP, "=", "=">>} => ~decoration

\* isDecorationLine returned true for a run of punctuation with whitespace
\* around it.
C22_Witness ==
  /\ pc = "decided" /\ decoration
  /\ src = <<SP, "-", "-", TAB>>

\* The text lines rewrapGoDocComment was called on.
textLinesOf == Split(src, <<NL>>)

\* The bare-marker line of the comment: its prefix without the space.
bareMarkerOf == TrimRight(prefix, {SP})

\* The number of bare-marker lines lines begins with.
leadingBare(lines) ==
  CHOOSE n \in 0..Len(lines) :
    /\ \A i \in 1..n : lines[i] = bareMarkerOf
    /\ n = Len(lines) \/ lines[n + 1] # bareMarkerOf

\* The number of bare-marker lines lines ends with.
trailingBare(lines) ==
  CHOOSE n \in 0..Len(lines) :
    /\ \A i \in (Len(lines) - n + 1)..Len(lines) : lines[i] = bareMarkerOf
    /\ n = Len(lines) \/ lines[Len(lines) - n] # bareMarkerOf

\* The blank text lines before the first text line that is not blank.
blanksBefore ==
  {i \in 1..Len(textLinesOf) : \A j \in 1..i : TrimSpace(textLinesOf[j]) = <<>>}

\* The blank text lines after the last text line that is not blank.
blanksAfter ==
  {i \in 1..Len(textLinesOf) :
     /\ \A j \in i..Len(textLinesOf) : TrimSpace(textLinesOf[j]) = <<>>
     /\ \E j \in 1..i : TrimSpace(textLinesOf[j]) # <<>>}

\* C23: the leading and the trailing blank lines counted for a Go doc comment
\* do not overlap; what is rendered begins with as many bare-marker lines as
\* there are leading blanks and ends with as many as there are trailing
\* blanks, no more; a comment that parses to no block is rendered as those
\* bare-marker lines alone, one for each of its lines when all are blank.
C23_GoDocBlankLines ==
  pc = "rendered" =>
    /\ leadingBlankCount(textLinesOf)
         + trailingBlankCount(textLinesOf, leadingBlankCount(textLinesOf))
         <= Len(textLinesOf)
    /\ leadingBlankCount(textLinesOf) = Cardinality(blanksBefore)
    /\ trailingBlankCount(textLinesOf, leadingBlankCount(textLinesOf))
         = Cardinality(blanksAfter)
    /\ content # <<>> =>
         /\ leadingBare(wrapped) = Cardinality(blanksBefore)
         /\ trailingBare(wrapped) = Cardinality(blanksAfter)
    /\ content = <<>> =>
         /\ wrapped = Repeat(bareMarkerOf, Cardinality(blanksBefore) + Cardinality(blanksAfter))
         /\ (\A i \in 1..Len(textLinesOf) : TrimSpace(textLinesOf[i]) = <<>>)
              => Len(wrapped) = Len(textLinesOf)

\* rewrapGoDocComment rendered, under an indent, a comment of one leading
\* blank line, a paragraph and two trailing blank lines.
C23_Witness ==
  /\ pc = "rendered"
  /\ content # <<>>
  /\ prefix[1] = TAB
  /\ Cardinality(blanksBefore) = 1 /\ Cardinality(blanksAfter) = 2
  /\ leadingBare(wrapped) = 1 /\ trailingBare(wrapped) = 2

\* What is rendered for block i of the parsed comment when it stands alone.
blockAlone(i) ==
  renderDocContent(<<content[i]>>, 0, 0, prefix, bareMarkerOf, column, tabWidth)

\* Block i is a list right after a paragraph, without the hint that forces a
\* blank line before it.
listJoinsParagraph(i) ==
  /\ i > 1
  /\ content[i].kind = spanList /\ content[i - 1].kind = spanPara
  /\ ~content[i].ForceBlankBefore

\* C24: between the leading and the trailing bare-marker lines, what is
\* rendered is the blocks of the parsed comment in order, one bare-marker line
\* before every block but the first, except before a list that follows a
\* paragraph without the hint that forces a blank line before it.
C24_GoDocSeparators ==
  (pc = "rendered" /\ content # <<>>) =>
    wrapped =
      Repeat(bareMarkerOf, Cardinality(blanksBefore))
      \o Flatten([i \in 1..Len(content) |->
                    (IF i = 1 \/ listJoinsParagraph(i) THEN <<>> ELSE <<bareMarkerOf>>)
                    \o blockAlone(i)])
      \o Repeat(bareMarkerOf, Cardinality(blanksAfter))

\* A comment of a paragraph, a list that joins it, and a block after the list
\* was rendered.
C24_Witness ==
  /\ pc = "rendered"
  /\ Len(content) = 3
  /\ listJoinsParagraph(2)
  /\ Len(wrapped) = Len(blockAlone(1)) + Len(blockAlone(2)) + 1 + Len(blockAlone(3))

\* The bullet of a list item: its number and ". ", or "- ".
bulletOf(item) ==
  IF item.Number # <<>> THEN item.Number \o <<".", SP>> ELSE <<"-", SP>>

\* The prefix of the continuation lines of a list item.
itemIndent(item) == prefix \o <<SP, SP>> \o Repeat(SP, Len(bulletOf(item)))

\* The lines of paragraph j of a list item: the first line of the item carries
\* the bullet, every other line the spaces that align it under the item text.
itemLines(item, j) ==
  wrapText(item.Content[j].Text,
           IF j = 1 THEN prefix \o <<SP, SP>> \o bulletOf(item) ELSE itemIndent(item),
           itemIndent(item), column, tabWidth)

\* The lines of a list: its items in order, a bare-marker line between items
\* when the list has the hint that forces one, and one between the paragraphs
\* of an item.
listLines(list) ==
  Flatten([k \in 1..Len(list.Items) |->
             (IF k > 1 /\ list.ForceBlankBetween THEN <<bareMarkerOf>> ELSE <<>>)
             \o Flatten([j \in 1..Len(list.Items[k].Content) |->
                           (IF j > 1 THEN <<bareMarkerOf>> ELSE <<>>)
                           \o itemLines(list.Items[k], j)])])

\* C25: a list of a Go doc comment is rendered item by item: the first line
\* of an item starts with the prefix, two spaces and the bullet; every other
\* line of the item starts with the prefix, two spaces and as many spaces as
\* the bullet is long; a bare-marker line separates two items exactly when the
\* list forces a blank between items, and always two paragraphs of an item.
C25_GoDocListLayout ==
  pc = "rendered" =>
    \A i \in 1..Len(content) :
      content[i].kind = spanList =>
        /\ blockAlone(i) = listLines(content[i])
        /\ \A k \in 1..Len(content[i].Items) :
             \A j \in 1..Len(content[i].Items[k].Content) :
               \A n \in 1..Len(itemLines(content[i].Items[k], j)) :
                 HasPrefix(itemLines(content[i].Items[k], j)[n],
                           IF j = 1 /\ n = 1
                           THEN prefix \o <<SP, SP>> \o bulletOf(content[i].Items[k])
                           ELSE itemIndent(content[i].Items[k]))

\* A numbered item and a bullet item were rendered, one of them on two lines or
\* more, in lists of which one has two items.
C25_Witness ==
  /\ pc = "rendered"
  /\ \E i \in 1..Len(content) :
       /\ content[i].kind = spanList
       /\ Len(content[i].Items) = 2
       /\ Len(itemLines(content[i].Items[1], 1)) >= 2
  /\ \E i \in 1..Len(content) :
       content[i].kind = spanList /\ content[i].Items[1].Number # <<>>

\* The lines of the code block text: the text without the newlines that end it.
codeLinesOf(text) == Split(TrimRight(text, {NL}), <<NL>>)

\* The text lines from line j on are the lines of the code block text, each
\* written as a tab and the code line, an empty code line as an empty line.
writtenAt(j, text) ==
  /\ j + Len(codeLinesOf(text)) - 1 <= Len(textLinesOf)
  /\ \A n \in 1..Len(codeLinesOf(text)) :
       textLinesOf[j + n - 1] =
         IF codeLinesOf(text)[n] = <<>> THEN <<>> ELSE <<TAB>> \o codeLinesOf(text)[n]

\* C26: a code block of a Go doc comment is not wrapped: each of its lines is
\* rendered as one line, the bare marker when the line is empty and the bare
\* marker, a tab and the line otherwise, whatever the column width; so a code
\* block whose lines are written as the marker, a tab and the text is rendered
\* as it is written.
C26_GoDocCodeVerbatim ==
  pc = "rendered" =>
    \A i \in 1..Len(content) :
      content[i].kind = spanCode =>
        /\ Len(blockAlone(i)) = Len(codeLinesOf(content[i].Text))
        /\ \A n \in 1..Len(blockAlone(i)) :
             blockAlone(i)[n] =
               IF codeLinesOf(content[i].Text)[n] = <<>> THEN bareMarkerOf
               ELSE bareMarkerOf \o <<TAB>> \o codeLinesOf(content[i].Text)[n]
        /\ \A j \in 1..Len(textLinesOf) :
             writtenAt(j, content[i].Text) =>
               blockAlone(i) = [n \in 1..Len(codeLinesOf(content[i].Text)) |->
                                  bareMarkerOf \o textLinesOf[j + n - 1]]

\* A comment of a paragraph and a code block of two lines wider than the
\* column width, an empty line between them, was rendered with the code block
\* as it was written.
C26_Witness ==
  /\ pc = "rendered"
  /\ Len(content) = 2 /\ content[2].kind = spanCode
  /\ Len(codeLinesOf(content[2].Text)) = 3
  /\ writtenAt(2, content[2].Text)
  /\ displayWidth(wrapped[Len(wrapped)], tabWidth) > column
  /\ SubSeq(wrapped, Len(wrapped) - 2, Len(wrapped))
       = [n \in 1..3 |-> bareMarkerOf \o textLinesOf[n + 1]]

\* C27: every iteration of the loop of parseSegments appends a segment of at
\* least one line and moves the line index past it, the index never passes
\* the line after the last, and every call of parseSegments returns, with
\* the segments Source works on.
C27_Termination ==
  /\ [][(pc = "parsing" /\ pc' = "parsing")
        => /\ Len(segments') = Len(segments) + 1
           /\ Len(segments'[Len(segments')].lines) >= 1
           /\ index' = index + Len(segments'[Len(segments')].lines)]_vars
  /\ [](pc \in {"parsing", "parsed"} => index \in 1..(Len(srcLines) + 1))
  /\ [](pc = "parsed" => segments = parseSegments(srcLines, lang))
  /\ (pc = "parsing") ~> (pc = "parsed")

\* parseSegments returned after three iterations, the last of them over a
\* block comment that is never closed.
C27_Witness ==
  /\ pc = "parsed"
  /\ Len(segments) = 3
  /\ segments[3].typ = segmentCode
  /\ lang # Nil /\ HasPrefix(segments[3].lines[1], lang.BlockStart[1])
  /\ segments = parseSegments(srcLines, lang)

\* Every line wrapText returned is a prefix followed by tokens or a paragraph
\* separator, and the tokens of the lines, read in order, are the tokens of
\* the text, in order.
tokensKept ==
  /\ \A n \in 1..Len(wrapped) :
       \/ HasPrefix(wrapped[n], linePrefix(n))
       \/ n > 1 /\ wrapped[n] = TrimRight(subsequentPrefix, {SP})
  /\ Flatten([n \in 1..Len(wrapped) |-> lineTokens(n)]) = Fields(src)

\* The text with its token stream and its paragraph breaks and nothing else:
\* every paragraph on one line, its tokens one space apart, and one blank line
\* between paragraphs.
flatText ==
  Join([j \in 1..Len(textParagraphs) |->
          Join(wordsOf(SubSeq(Split(src, <<NL>>), textParagraphs[j].first,
                              textParagraphs[j].last)), <<SP>>)],
       <<NL, NL>>)

textAfter(s, sep) ==
  IF Contains(s, sep) THEN SubSeq(s, Index(s, sep) + Len(sep), Len(s)) ELSE <<>>

\* What the closing line of block comment segment k holds after the end token,
\* without the whitespace around it.
trailingText(k) ==
  TrimSpace(textAfter(segments[k].lines[Len(segments[k].lines)], lang.BlockEnd[1]))

\* C29: the text that follows the end token on the closing line of a block
\* comment of two lines or more is in the lines emitted for the comment, after
\* the end token.
C29_TrailingTextKept ==
  (pc = "returned" /\ lang # Nil) =>
    \A k \in 1..Len(segments) :
      (/\ segments[k].typ = segmentBlock
       /\ Len(segments[k].lines) >= 2
       /\ trailingText(k) # <<>>) =>
        Contains(textAfter(Join(out[k], <<NL>>), lang.BlockEnd[1]), trailingText(k))

\* Input line n holds a line-comment marker or a block-start token of the
\* language with non-whitespace text before it, and starts with neither.
trailingComment(n) ==
  /\ \A m \in Range(lang.LineMarkers) \cup Range(lang.BlockStart) :
       ~HasPrefix(TrimLeft(sourceLines(src)[n], {SP, TAB}), m)
  /\ \E m \in Range(lang.LineMarkers) \cup Range(lang.BlockStart) :
       /\ Contains(sourceLines(src)[n], m)
       /\ TrimSpace(CutBefore(sourceLines(src)[n], m)) # <<>>

\* Input line n is in a block comment that an earlier line started.
insideBlock(n) ==
  /\ segments[segIndex(n)].typ = segmentBlock
  /\ n > inStart(segIndex(n)) + 1

\* C30: an input line with text before its comment token that is not inside
\* a block comment is in a Code segment (it neither starts a comment segment
\* nor extends one) and is in the bytes returned, unchanged.
C30_CommentsAtLineStart ==
  (pc = "returned" /\ lang # Nil) =>
    \A n \in 1..Len(sourceLines(src)) :
      (trailingComment(n) /\ ~insideBlock(n)) =>
        /\ segments[segIndex(n)].typ = segmentCode
        /\ emittedAt(n) = sourceLines(src)[n]

\* Source returned on a line comment, then a line with text before a
\* block-start token, then a line that holds the block-end token.
C30_Witness ==
  /\ pc = "returned" /\ lang # Nil /\ Len(lang.BlockStart) > 0
  /\ Len(sourceLines(src)) >= 3
  /\ segments[segIndex(1)].typ = segmentComment
  /\ trailingComment(2)
  /\ Contains(sourceLines(src)[2], lang.BlockStart[1])
  /\ Contains(sourceLines(src)[3], lang.BlockEnd[1])

====
